---- MODULE Spec2Model ----
(***************************************************************************)
(* Conversation turn assembly of Paw's web front end.                      *)
(*                                                                         *)
(* The model follows src/core/static/js/app.ts (the WebSocket event        *)
(* handlers and the submit handler) and src/core/static/js/modules/chat.ts *)
(* (the ChatHistory manager).  The handlers decide what to do by querying  *)
(* the message DOM, so the part of the DOM they query is state as well.    *)
(*                                                                         *)
(* Texts are sequences of tokens; undefined/'' is the empty sequence.      *)
(* msg-${Date.now()} ids are abstracted to the constant MsgNow: no handler *)
(* looks such an id up.  Stream ids are chosen by the server and are       *)
(* fresh for every stream.                                                 *)
(***************************************************************************)
EXTENDS Integers, Sequences, FiniteSets, TLC

\* ---------------------------------------------------------------- bounds
MaxEvents  == 6      \* events handled in one run
MaxStreams == 2      \* text streams the server starts in one run
MaxOther   == 1      \* events outside a turn's own (system_message, new_chat,
                     \* session_load, unknown names) in one run

\* ---------------------------------------------------------------- inputs
ChunkTexts == {<<"a">>, <<"b">>}
UserInputs == {<<" ">>, <<"/", "n">>, <<"h", " ">>}
ToolIds    == {"t1", "t2"}
ToolNames  == {"read_file", "stay_silent"}
Results    == {[display |-> "d1", success |-> TRUE], [display |-> "d2", success |-> FALSE]}
StreamIdOf(n) == <<"s1", "s2", "s3", "s4", "s5", "s6">>[n]

NoId   == "null"
MsgNow == "msg-now"

\* ---------------------------------------------------------------- values
TextPart(t)     == [type |-> "text", text |-> t, id |-> "", name |-> ""]
ToolPart(i, n)  == [type |-> "tool", text |-> <<>>, id |-> i, name |-> n]
Turn(r, m, t, p) == [role |-> r, msgId |-> m, text |-> t, parts |-> p]
NullTurn        == Turn("null", NoId, <<>>, <<>>)
Message(i, r, t) == [id |-> i, role |-> r, text |-> t]

NoDisplay == [src |-> "none", v |-> "", name |-> "", content |-> <<>>]
BackendDisplay(d) == [src |-> "backend", v |-> d, name |-> "", content |-> <<>>]

\* children of an assistant message element
ToolEl(i, n)    == [kind |-> "tool", id |-> i, name |-> n, html |-> <<>>,
                    status |-> "pending", display |-> NoDisplay]
ContentEl(i, h) == [kind |-> "content", id |-> i, name |-> "", html |-> h,
                    status |-> "", display |-> NoDisplay]

\* marked.parse: markdown to HTML; the empty text renders to the empty string
Marked(t) == IF t = <<>> THEN <<>> ELSE <<"<p>">> \o t \o <<"</p>">>

\* an element of dom.messages.  intact: the element still has the
\* header / .msg__content / .msg__tools children createMsgEl gave it;
\* html: innerHTML of its first .msg__content (intact) or of the element
\* itself (not intact); tools: children of .msg__tools; extra: children
\* appended to the element after .msg__tools
createMsgEl(type, text, id) ==
    [cls |-> type, id |-> id, intact |-> TRUE, html |-> Marked(text),
     tools |-> <<>>, extra |-> <<>>]
SysMsgEl == [cls |-> "sys", id |-> NoId, intact |-> FALSE, html |-> <<>>,
             tools |-> <<>>, extra |-> <<>>]

RECURSIVE Trim(_)
Trim(s) ==
    IF s = <<>> THEN s
    ELSE IF Head(s) = " " THEN Trim(Tail(s))
    ELSE IF s[Len(s)] = " " THEN Trim(SubSeq(s, 1, Len(s) - 1))
    ELSE s

\* ------------------------------------------------------------ DOM queries
\* dom.messages.querySelector('.msg--assistant:last-child'): 0 when absent
LastAssistant(dom) ==
    IF dom # <<>> /\ dom[Len(dom)].cls = "assistant" THEN Len(dom) ELSE 0

NoLoc == [at |-> "none", i |-> 0, j |-> 0]

\* document.getElementById(id) for a stream id: the message element that
\* carries the id, or a continued content block that carries it
ExtraLocs(dom) ==
    UNION {{<<i, j>> : j \in 1..Len(dom[i].extra)} : i \in 1..Len(dom)}
ContentById(dom, id) ==
    LET msgs == {i \in 1..Len(dom) : dom[i].cls = "assistant" /\ dom[i].id = id}
        subs == {p \in ExtraLocs(dom) :
                    /\ dom[p[1]].extra[p[2]].kind = "content"
                    /\ dom[p[1]].extra[p[2]].id = id}
    IN  IF msgs # {} THEN [at |-> "msg", i |-> CHOOSE i \in msgs : \A k \in msgs : i <= k, j |-> 0]
        ELSE IF subs # {}
             THEN LET p == CHOOSE p \in subs : \A q \in subs :
                                \/ p[1] < q[1]
                                \/ (p[1] = q[1] /\ p[2] <= q[2])
                  IN [at |-> "content", i |-> p[1], j |-> p[2]]
        ELSE NoLoc

\* querySelector('.msg--assistant:last-child .msg__content:last-of-type'):
\* all children of a message element are divs, so a content block is
\* last-of-type only when it is the last child of the element
LastContent(dom) ==
    LET i == LastAssistant(dom) IN
    IF i # 0 /\ dom[i].extra # <<>> /\ dom[i].extra[Len(dom[i].extra)].kind = "content"
    THEN [at |-> "content", i |-> i, j |-> Len(dom[i].extra)]
    ELSE NoLoc

\* content.innerHTML = html
SetInnerHTML(dom, loc, html) ==
    IF loc.at = "msg"
    THEN [dom EXCEPT ![loc.i] = [@ EXCEPT !.intact = FALSE, !.html = html,
                                           !.tools = <<>>, !.extra = <<>>]]
    ELSE [dom EXCEPT ![loc.i].extra[loc.j].html = html]

\* document.getElementById(`tool-${id}`): first tool element in document order
ToolLocs(dom, id) ==
    {p \in UNION {{<<i, 1, j>> : j \in 1..Len(dom[i].tools)} \cup
                  {<<i, 2, j>> : j \in 1..Len(dom[i].extra)} : i \in 1..Len(dom)} :
        LET kids == IF p[2] = 1 THEN dom[p[1]].tools ELSE dom[p[1]].extra IN
        /\ kids[p[3]].kind = "tool"
        /\ kids[p[3]].id = id}
Before(p, q) ==
    \/ p[1] < q[1]
    \/ (p[1] = q[1] /\ p[2] < q[2])
    \/ (p[1] = q[1] /\ p[2] = q[2] /\ p[3] <= q[3])
ToolElAt(dom, p) ==
    IF p[2] = 1 THEN dom[p[1]].tools[p[3]] ELSE dom[p[1]].extra[p[3]]
\* faulty variant: the first tool element still pending, whatever its id
ToolByIdFirstPending(dom, id) ==
    LET ps == UNION {ToolLocs(dom, i) : i \in ToolIds}
        pending == {p \in ps : ToolElAt(dom, p).status = "pending"}
    IN IF pending = {} THEN <<0, 0, 0>>
       ELSE CHOOSE p \in pending : \A q \in pending : Before(p, q)
ToolById(dom, id) ==
    LET ps == ToolLocs(dom, id) IN
    IF ps = {} THEN <<0, 0, 0>> ELSE CHOOSE p \in ps : \A q \in ps : Before(p, q)

\* updateToolElement(el, name, display, success): className and innerHTML
updateToolElement(dom, p, name, display, success) ==
    IF p[1] = 0 THEN dom
    ELSE LET el == [ToolElAt(dom, p) EXCEPT
                       !.status = IF success THEN "success" ELSE "error",
                       !.name = name, !.display = display]
         IN IF p[2] = 1 THEN [dom EXCEPT ![p[1]].tools[p[3]] = el]
                        ELSE [dom EXCEPT ![p[1]].extra[p[3]] = el]

\* element.remove() of the i-th child of dom.messages
RemoveAt(dom, i) ==
    IF i = 0 THEN dom ELSE SubSeq(dom, 1, i - 1) \o SubSeq(dom, i + 1, Len(dom))

\* ------------------------------------------------- ChatHistory (chat.ts)
\* A program state s is a record of ChatHistory's fields (messages, turns,
\* currentTurn, isInAssistantTurn), AppState's fields (isGenerating,
\* streamId, streamBuf), the children of dom.messages (dom) and the last
\* text handed to ws.send (wsOut).

addUserMessage(s, text) ==
    [s EXCEPT !.messages = Append(@, Message(MsgNow, "user", text)),
              !.turns = Append(@, Turn("user", MsgNow, text, <<>>)),
              !.dom = Append(@, createMsgEl("user", text, MsgNow)),
              !.isInAssistantTurn = TRUE,
              !.currentTurn = Turn("assistant", NoId, <<>>, <<>>)]

onStreamStart(s, msgId) ==
    IF s.currentTurn # NullTurn /\ s.isInAssistantTurn /\ s.currentTurn.msgId = NoId
    THEN [s EXCEPT !.currentTurn.msgId = msgId]
    ELSE s

\* faulty variant: the finished text becomes the preview text but no TextPart
onStreamEndTextOnly(s, text) ==
    IF s.currentTurn # NullTurn /\ s.isInAssistantTurn /\ text # <<>>
    THEN [s EXCEPT !.currentTurn.text = IF @ = <<>> THEN text ELSE @]
    ELSE s

onStreamEnd(s, text) ==
    IF s.currentTurn # NullTurn /\ s.isInAssistantTurn /\ text # <<>>
    THEN [s EXCEPT !.currentTurn.parts = Append(@, TextPart(text)),
                   !.currentTurn.text = IF @ = <<>> THEN text ELSE @]
    ELSE s

addTool(s, toolId, toolName) ==
    IF s.currentTurn # NullTurn /\ s.isInAssistantTurn
    THEN [s EXCEPT !.currentTurn.parts = Append(@, ToolPart(toolId, toolName))]
    ELSE s

\* faulty variant: the open turn is pushed even when it is empty
endAssistantTurnAlways(s) ==
    IF s.currentTurn # NullTurn /\ s.isInAssistantTurn
    THEN LET mid == IF s.currentTurn.msgId # NoId THEN s.currentTurn.msgId ELSE MsgNow
         IN [s EXCEPT !.turns = Append(@, s.currentTurn),
                      !.messages = Append(@, Message(mid, "assistant", s.currentTurn.text)),
                      !.currentTurn = NullTurn,
                      !.isInAssistantTurn = FALSE]
    ELSE s

\* faulty variant: the finished turn is put at the head of the list (unshift for push)
endAssistantTurnUnshift(s) ==
    IF s.currentTurn # NullTurn /\ s.isInAssistantTurn
    THEN LET keep == Len(s.currentTurn.parts) > 0 \/ s.currentTurn.text # <<>>
             mid  == IF s.currentTurn.msgId # NoId THEN s.currentTurn.msgId ELSE MsgNow
         IN [s EXCEPT !.turns = IF keep THEN <<s.currentTurn>> \o @ ELSE @,
                      !.messages = IF keep
                                   THEN Append(@, Message(mid, "assistant", s.currentTurn.text))
                                   ELSE @,
                      !.currentTurn = NullTurn,
                      !.isInAssistantTurn = FALSE]
    ELSE s

endAssistantTurn(s) ==
    IF s.currentTurn # NullTurn /\ s.isInAssistantTurn
    THEN LET keep == Len(s.currentTurn.parts) > 0 \/ s.currentTurn.text # <<>>
             mid  == IF s.currentTurn.msgId # NoId THEN s.currentTurn.msgId ELSE MsgNow
         IN [s EXCEPT !.turns = IF keep THEN Append(@, s.currentTurn) ELSE @,
                      !.messages = IF keep
                                   THEN Append(@, Message(mid, "assistant", s.currentTurn.text))
                                   ELSE @,
                      !.currentTurn = NullTurn,
                      !.isInAssistantTurn = FALSE]
    ELSE s

\* faulty variant: clear() forgets to reset isInAssistantTurn
clearKeepFlag(s) ==
    [s EXCEPT !.messages = <<>>, !.turns = <<>>, !.currentTurn = NullTurn]

clear(s) ==
    [s EXCEPT !.messages = <<>>, !.turns = <<>>,
              !.currentTurn = NullTurn, !.isInAssistantTurn = FALSE]

\* ------------------------------------------------------ handlers (app.ts)
Stop     == <<"/", "stop">>
Sessions == <<"/", "sessions">>

setGeneratingState(s, generating) == [s EXCEPT !.isGenerating = generating]

startStream(s, id) ==
    LET s1 == [s EXCEPT !.streamId = id, !.streamBuf = <<>>]
        i  == LastAssistant(s.dom)
    IN  IF s.isInAssistantTurn /\ i # 0
        THEN LET el == s.dom[i]
                 cont == ContentEl(id, <<>>)
                 \* existingMsg.querySelector('.msg__content')
                 firstHtml ==
                     IF el.intact THEN el.html
                     ELSE LET js == {j \in 1..Len(el.extra) : el.extra[j].kind = "content"}
                          IN IF js = {} THEN <<>>
                             ELSE el.extra[CHOOSE j \in js : \A k \in js : j <= k].html
             IN IF (el.intact /\ Len(el.tools) > 0) \/ firstHtml # <<>>
                THEN [s1 EXCEPT !.dom[i].extra = Append(@, cont)]
                ELSE s1
        ELSE onStreamStart([s1 EXCEPT !.dom = Append(@, createMsgEl("assistant", <<>>, id))], id)

appendStream(s, id, text) ==
    LET byId == ContentById(s.dom, id)
        loc  == IF byId # NoLoc THEN byId ELSE LastContent(s.dom)
    IN  IF loc = NoLoc THEN s
        ELSE [s EXCEPT !.streamBuf = @ \o text,
                       !.dom = SetInnerHTML(@, loc, Marked(s.streamBuf \o text))]

\* the copy buttons endStream adds live inside the rendered text and are
\* not queried by any handler
endStream(s, id) ==
    [onStreamEnd(s, s.streamBuf) EXCEPT !.streamId = NoId, !.streamBuf = <<>>]

\* faulty variant: the stay_silent branch removes the message element and re-enables
\* Send but leaves ChatHistory's open turn alone
createToolKeepTurn(s, id, name) ==
    IF name = "stay_silent"
    THEN setGeneratingState([s EXCEPT !.dom = RemoveAt(@, LastAssistant(s.dom))], FALSE)
    ELSE LET el == ToolEl(id, name)
             i  == LastAssistant(s.dom)
             s1 == IF s.isInAssistantTurn /\ i # 0
                   THEN IF s.dom[i].intact
                        THEN [s EXCEPT !.dom[i].tools = Append(@, el)]
                        ELSE [s EXCEPT !.dom[i].extra = Append(@, el)]
                   ELSE onStreamStart(
                            [s EXCEPT !.dom = Append(@,
                                [createMsgEl("assistant", <<>>, MsgNow) EXCEPT !.tools = <<el>>])],
                            MsgNow)
         IN addTool(s1, id, name)

createTool(s, id, name) ==
    IF name = "stay_silent"
    THEN LET s1 == [s EXCEPT !.dom = RemoveAt(@, LastAssistant(s.dom))]
             s2 == IF s1.currentTurn # NullTurn
                   THEN [s1 EXCEPT !.currentTurn = NullTurn, !.isInAssistantTurn = FALSE]
                   ELSE s1
         IN setGeneratingState(s2, FALSE)
    ELSE LET el == ToolEl(id, name)
             i  == LastAssistant(s.dom)
             s1 == IF s.isInAssistantTurn /\ i # 0
                   THEN IF s.dom[i].intact
                        THEN [s EXCEPT !.dom[i].tools = Append(@, el)]
                        ELSE [s EXCEPT !.dom[i].extra = Append(@, el)]
                   ELSE onStreamStart(
                            [s EXCEPT !.dom = Append(@,
                                [createMsgEl("assistant", <<>>, MsgNow) EXCEPT !.tools = <<el>>])],
                            MsgNow)
         IN addTool(s1, id, name)

updateTool(s, id, name, display, success) ==
    LET p == ToolById(s.dom, id) IN
    IF p[1] = 0 THEN s
    ELSE IF name = "stay_silent"
    THEN LET s1 == [s EXCEPT !.dom = RemoveAt(@, p[1])]
         IN IF s1.currentTurn # NullTurn
            THEN [s1 EXCEPT !.currentTurn = NullTurn, !.isInAssistantTurn = FALSE]
            ELSE s1
    ELSE [s EXCEPT !.dom = updateToolElement(@, p, name, display, success)]

\* faulty variant: 'turn_end' leaves the generating state as it is
turnEndNoIdle(s) == endAssistantTurn(s)
turnEnd(s) == setGeneratingState(endAssistantTurn(s), FALSE)

newChat(s) == [clear(s) EXCEPT !.dom = <<>>, !.wsOut = Sessions]

\* faulty variant: an accepted message does not switch to the generating state
handleSubmitStaysIdle(s, input) ==
    IF s.isGenerating THEN [s EXCEPT !.wsOut = Stop]
    ELSE LET msg == Trim(input) IN
         IF msg = <<>> THEN s
         ELSE LET s1 == [s EXCEPT !.wsOut = msg] IN
              IF Head(msg) = "/" THEN s1
              ELSE addUserMessage(s1, msg)

\* faulty variant: Stop also leaves the generating state at once
handleSubmitStopResets(s, input) ==
    IF s.isGenerating THEN setGeneratingState([s EXCEPT !.wsOut = Stop], FALSE)
    ELSE LET msg == Trim(input) IN
         IF msg = <<>> THEN s
         ELSE LET s1 == [s EXCEPT !.wsOut = msg] IN
              IF Head(msg) = "/" THEN s1
              ELSE setGeneratingState(addUserMessage(s1, msg), TRUE)

\* faulty variant: a command is shown and answered like a message
handleSubmitCommandAsMessage(s, input) ==
    IF s.isGenerating THEN [s EXCEPT !.wsOut = Stop]
    ELSE LET msg == Trim(input) IN
         IF msg = <<>> THEN s
         ELSE setGeneratingState(addUserMessage([s EXCEPT !.wsOut = msg], msg), TRUE)

handleSubmit(s, input) ==
    IF s.isGenerating THEN [s EXCEPT !.wsOut = Stop]
    ELSE LET msg == Trim(input) IN
         IF msg = <<>> THEN s
         ELSE LET s1 == [s EXCEPT !.wsOut = msg] IN
              IF Head(msg) = "/" THEN s1
              ELSE setGeneratingState(addUserMessage(s1, msg), TRUE)

\* ------------------------------------------- getToolDisplay (render)
\* Strings are sequences of one-character strings.  A JavaScript value read
\* from a tool call's arguments is undefined, a string or a number.
JUndef  == [t |-> "undefined", s |-> <<>>, n |-> 0]
JStr(s) == [t |-> "string", s |-> s, n |-> 0]
JNum(n) == [t |-> "number", s |-> <<>>, n |-> n]
Truthy(v) == (v.t = "string" /\ v.s # <<>>) \/ (v.t = "number" /\ v.n # 0)

ArgFields == {"file_path", "offset", "limit", "directory_path", "pattern",
              "query", "url", "page_id"}
\* the args value: an object with some of the fields, or null
ArgsObject(f) ==
    [t |-> "object", f |-> [k \in ArgFields |-> IF k \in DOMAIN f THEN f[k] ELSE JUndef]]
EmptyArgs == ArgsObject(<<>>)
NullArgs  == [t |-> "null", f |-> [k \in ArgFields |-> JUndef]]

RECURSIVE Digits(_)
Digits(n) ==
    IF n < 0 THEN <<"-">> \o Digits(0 - n)
    ELSE IF n < 10 THEN <<<<"0", "1", "2", "3", "4", "5", "6", "7", "8", "9">>[n + 1]>>
    ELSE Digits(n \div 10) \o Digits(n % 10)

\* `${v}` in a template literal
Interp(v) ==
    IF v.t = "string" THEN v.s
    ELSE IF v.t = "number" THEN Digits(v.n)
    ELSE <<"u", "n", "d", "e", "f", "i", "n", "e", "d">>

\* s.split(sep) for a one-character separator
RECURSIVE Split(_, _)
Split(s, sep) ==
    LET js == {j \in 1..Len(s) : s[j] = sep} IN
    IF js = {} THEN <<s>>
    ELSE LET j == CHOOSE j \in js : \A k \in js : j <= k
         IN <<SubSeq(s, 1, j - 1)>> \o Split(SubSeq(s, j + 1, Len(s)), sep)

\* parts.join(sep) for a separator string
RECURSIVE Join(_, _)
Join(ps, sep) ==
    IF ps = <<>> THEN <<>>
    ELSE IF Len(ps) = 1 THEN ps[1]
    ELSE ps[1] \o sep \o Join(Tail(ps), sep)

Slice(s, from, to) == SubSeq(s, from + 1, IF to < Len(s) THEN to ELSE Len(s))
Includes(s, sub) == \E i \in 1..(Len(s) - Len(sub) + 1) : SubSeq(s, i, i + Len(sub) - 1) = sub
StartsWith(s, c) == s # <<>> /\ s[1] = c

\* path.split('/').pop().split('\\').pop()
Basename(path) ==
    LET a == Split(path, "/")
        b == Split(a[Len(a)], "\\")
    IN b[Len(b)]

\* s.trim(): blanks and line breaks
RECURSIVE TrimWs(_)
TrimWs(s) ==
    IF s = <<>> THEN s
    ELSE IF Head(s) \in {" ", "\n"} THEN TrimWs(Tail(s))
    ELSE IF s[Len(s)] \in {" ", "\n"} THEN TrimWs(SubSeq(s, 1, Len(s) - 1))
    ELSE s

\* s.toLowerCase() over the letters the texts of the model use
Lower(s) == [i \in 1..Len(s) |-> IF s[i] = "N" THEN "n" ELSE IF s[i] = "M" THEN "m" ELSE s[i]]

NoMatches == <<"n", "o", " ", "m", "a", "t", "c", "h", "e", "s">>

\* content.match(/\{[\s\S]*\}/): from the first '{' to the last '}' after it;
\* <<>> when there is no match
JsonMatch(content) ==
    LET os == {j \in 1..Len(content) : content[j] = "{"} IN
    IF os = {} THEN <<>>
    ELSE LET o  == CHOOSE j \in os : \A k \in os : j <= k
             cs == {j \in (o + 1)..Len(content) : content[j] = "}"}
         IN IF cs = {} THEN <<>>
            ELSE SubSeq(content, o, CHOOSE j \in cs : \A k \in cs : k <= j)

\* JSON.parse of a matched text.  A JSON object is written '{', one letter
\* per member, '}': r a further entry of results, p a further entry of pages,
\* t title, u url_id, n page_num, m total_pages, z size, and x a results /
\* pages / title member that is a number.  Any other character between the
\* braces makes the text invalid JSON.
JsonLetters == {"r", "p", "t", "u", "n", "m", "z", "x"}
Count(s, c) == Cardinality({j \in 1..Len(s) : s[j] = c})
JsonParse(m) ==
    LET body == SubSeq(m, 2, Len(m) - 1) IN
    IF \E j \in 1..Len(body) : body[j] \notin JsonLetters
    THEN [valid |-> FALSE, typed |-> FALSE, results |-> 0, pages |-> 0, title |-> <<>>,
          url_id |-> <<>>, page_num |-> 0, total_pages |-> 0, size |-> 0]
    ELSE [valid |-> TRUE,
          typed |-> Count(body, "x") = 0,
          results |-> Count(body, "r"),
          pages |-> Count(body, "p"),
          title |-> IF Count(body, "t") > 0 THEN <<"T">> ELSE <<>>,
          url_id |-> IF Count(body, "u") > 0 THEN <<"U">> ELSE <<>>,
          page_num |-> IF Count(body, "n") > 0 THEN 2 ELSE 0,
          total_pages |-> IF Count(body, "m") > 0 THEN 3 ELSE 0,
          size |-> IF Count(body, "z") > 0 THEN 7 ELSE 0]

\* entries.map(e => `[${e.id}] ${e.text}`).join('\n'): the k-th entry has id k
\* and the text given
RECURSIVE Entries(_, _)
Entries(n, text) ==
    IF n = 0 THEN <<>>
    ELSE Entries(n - 1, text) \o (IF n > 1 THEN <<"\n">> ELSE <<>>)
         \o <<"[">> \o Digits(n) \o <<"]", " ">> \o text

Display(l1, l2, h) == [raised |-> FALSE, line1 |-> l1, line2 |-> l2, has_line2 |-> h]
\* a TypeError leaves the function
Raised == [raised |-> TRUE, line1 |-> <<>>, line2 |-> <<>>, has_line2 |-> FALSE]

Quoted(s) == <<"\"">> \o s \o <<"\"">>
\* CJK characters are written by their pinyin: one string per character
NoMatch == <<" ", "wu", "pi", "pei">>

\* the first capture of l.match(/\] (.+?)(?: \(|$)/), '' without a match
EntryName(l) ==
    LET is == {i \in 1..(Len(l) - 2) : l[i] = "]" /\ l[i + 1] = " "} IN
    IF is = {} THEN <<>>
    ELSE LET i  == CHOOSE i \in is : \A k \in is : i <= k
             es == {e \in (i + 2)..Len(l) :
                       \/ e = Len(l)
                       \/ (e + 2 <= Len(l) /\ l[e + 1] = " " /\ l[e + 2] = "(")}
         IN SubSeq(l, i + 2, CHOOSE e \in es : \A k \in es : e <= k)

\* args.k || d, as the text a template literal or a string method gets
OrText(v, d) == IF Truthy(v) THEN Interp(v) ELSE d

Suffix(count) ==
    IF count > 3 THEN <<".", ".", ".", " ", "(", "+">> \o Digits(count - 3) \o <<")">> ELSE <<>>
FirstThree(ps) == SubSeq(ps, 1, IF Len(ps) < 3 THEN Len(ps) ELSE 3)

ReadFileDisplay(content, args) ==
    LET fp == args.f.file_path IN
    IF args.t = "null" \/ (Truthy(fp) /\ fp.t # "string") THEN Raised
    ELSE LET filename == Basename(IF Truthy(fp) THEN fp.s ELSE <<>>)
             total    == Digits(Len(Split(content, "\n")))
             offset   == args.f.offset
             limit    == args.f.limit
             rangeStr ==
                 IF Truthy(offset) /\ Truthy(limit)
                 THEN <<"(">> \o Interp(offset) \o <<"-">> \o Digits(offset.n + limit.n - 1)
                      \o <<"/">> \o total \o <<"hang", ")">>
                 ELSE IF Truthy(offset)
                 THEN <<"(">> \o Interp(offset) \o <<"-", "e", "n", "d", "/">> \o total
                      \o <<"hang", ")">>
                 ELSE <<"(", "a", "l", "l", " ">> \o total \o <<"hang", ")">>
         IN Display(filename \o <<" ">> \o rangeStr, <<>>, FALSE)

FileOpDisplay(args) ==
    LET fp == args.f.file_path IN
    IF args.t = "null" \/ (Truthy(fp) /\ fp.t # "string") THEN Raised
    ELSE Display(Basename(IF Truthy(fp) THEN fp.s ELSE <<>>), <<>>, FALSE)

\* faulty variant: entries without a name stay in the preview
ListDirDisplayKeepEmpty(content, args) ==
    IF args.t = "null" THEN Raised
    ELSE LET IsEntry(l) == StartsWith(l, "[")
             lines   == SelectSeq(Split(content, "\n"), IsEntry)
             count   == Len(lines)
             first   == FirstThree(lines)
             names   == [i \in 1..Len(first) |-> EntryName(first[i])]
         IN Display(OrText(args.f.directory_path, <<".">>),
                    Join(names, <<",", " ">>) \o Suffix(count),
                    count > 0)

ListDirDisplay(content, args) ==
    IF args.t = "null" THEN Raised
    ELSE LET IsEntry(l) == StartsWith(l, "[")
             NonEmpty(l) == l # <<>>
             lines   == SelectSeq(Split(content, "\n"), IsEntry)
             count   == Len(lines)
             first   == FirstThree(lines)
             names   == SelectSeq([i \in 1..Len(first) |-> EntryName(first[i])], NonEmpty)
         IN Display(OrText(args.f.directory_path, <<".">>),
                    Join(names, <<",", " ">>) \o Suffix(count),
                    count > 0)

FindByNameDisplay(content, args) ==
    IF args.t = "null" THEN Raised
    ELSE LET NonEmpty(l) == l # <<>>
             pattern == OrText(args.f.pattern, <<>>)
             items   == SelectSeq(Split(content, "\n"), NonEmpty)
             count   == Len(items)
             first   == FirstThree(items)
             names   == [i \in 1..Len(first) |-> Basename(first[i])]
         IN IF count = 0 THEN Display(Quoted(pattern) \o NoMatch, <<>>, FALSE)
            ELSE Display(Quoted(pattern) \o <<" ">> \o Digits(count) \o <<"pi", "pei">>,
                         Join(names, <<",", " ">>) \o Suffix(count),
                         TRUE)

GrepDisplay(w, content, args) ==
    IF args.t = "null" THEN Raised
    ELSE LET query   == OrText(args.f.query, <<>>)
             trimmed == TrimWs(content)
             lines   == Split(trimmed, "\n")
             summary == Slice(lines[1], 0, w)
                        \o (IF Len(lines[1]) > w THEN <<".", ".", ".">> ELSE <<>>)
         IN IF trimmed = <<>> \/ Includes(Lower(trimmed), NoMatches)
            THEN Display(Quoted(query) \o NoMatch, <<>>, FALSE)
            ELSE Display(Quoted(query),
                         summary \o (IF Len(lines) > 1
                                     THEN <<" ", "(", "+">> \o Digits(Len(lines) - 1) \o <<")">>
                                     ELSE <<>>),
                         TRUE)

\* the embedded JSON of a result text: parsed is FALSE when nothing matches,
\* when JSON.parse throws, or when the rendering code inside the try block
\* throws on a member of the wrong type
Embedded(content, needsTyped) ==
    LET m == JsonMatch(content)
        d == JsonParse(m)
    IN [parsed |-> m # <<>> /\ d.valid /\ (needsTyped => d.typed), data |-> d]

SearchWebDisplay(content, args) ==
    IF args.t = "null" THEN Raised
    ELSE LET query == OrText(args.f.query, <<>>)
             e     == Embedded(content, TRUE)
         IN IF e.parsed
            THEN Display(Digits(e.data.results) \o <<"tiao", " ">> \o Quoted(query),
                         Entries(e.data.results, <<"T">>),
                         e.data.results > 0)
            ELSE Display(Quoted(query), <<>>, FALSE)

LoadUrlDisplay(wt, content, args) ==
    LET e == Embedded(content, TRUE) IN
    IF e.parsed
    THEN LET title == Slice(IF e.data.title # <<>> THEN e.data.title
                            ELSE <<"wu", "biao", "ti">>, 0, wt)
         IN Display(IF e.data.url_id # <<>>
                    THEN <<"[">> \o e.data.url_id \o <<"]", " ">> \o title ELSE title,
                    Entries(e.data.pages, <<"S">>),
                    e.data.pages > 0)
    ELSE \* args.url?.slice(0, wt) || ''
         IF args.t = "null" \/ args.f.url.t = "number" THEN Raised
         ELSE Display(Slice(args.f.url.s, 0, wt), <<>>, FALSE)

ReadPageDisplay(content, args) ==
    IF args.t = "null" THEN Raised
    ELSE LET pageId == OrText(args.f.page_id, <<>>)
             e      == Embedded(content, FALSE)
             Or(n)  == IF n # 0 THEN Digits(n) ELSE <<"?">>
         IN IF e.parsed
            THEN Display(<<"[">> \o pageId \o <<"]", " ", "di">> \o Or(e.data.page_num)
                         \o <<"/">> \o Or(e.data.total_pages) \o <<"ye", " ", "(">>
                         \o Digits(e.data.size) \o <<"zi", "jie", ")">>,
                         <<>>, FALSE)
            ELSE Display(<<"[">> \o pageId \o <<"]">>, <<>>, FALSE)

DefaultDisplay(w, content) ==
    IF Includes(content, <<"\n">>)
    THEN LET lines == Split(content, "\n")
         IN Display(Slice(lines[1], 0, w), Join(Slice(lines, 1, 10), <<"\n">>), TRUE)
    ELSE Display(Slice(content, 0, w), <<>>, FALSE)

\* getToolDisplay(toolName, resultText, args) with the widths it truncates
\* to: w for result lines, wt for titles and urls.  resultText || '' is the
\* text itself ('' for undefined).
ToolDisplay(w, wt, toolName, resultText, args) ==
    IF toolName = "read_file" THEN ReadFileDisplay(resultText, args)
    ELSE IF toolName \in {"write_to_file", "delete_file", "edit", "multi_edit"}
    THEN FileOpDisplay(args)
    ELSE IF toolName = "list_dir" THEN ListDirDisplay(resultText, args)
    ELSE IF toolName = "find_by_name" THEN FindByNameDisplay(resultText, args)
    ELSE IF toolName = "grep_search" THEN GrepDisplay(w, resultText, args)
    ELSE IF toolName = "search_web" THEN SearchWebDisplay(resultText, args)
    ELSE IF toolName = "load_url_content" THEN LoadUrlDisplay(wt, resultText, args)
    ELSE IF toolName = "read_page" THEN ReadPageDisplay(resultText, args)
    ELSE DefaultDisplay(w, resultText)

\* src/core/frontend/src/modules/render.ts
getToolDisplay(toolName, resultText, args) == ToolDisplay(100, 100, toolName, resultText, args)
\* src/core/static/js/modules/render.js
getToolDisplayJs(toolName, resultText, args) == ToolDisplay(60, 40, toolName, resultText, args)

\* the program state after construction
Fresh == [messages |-> <<>>, turns |-> <<>>, currentTurn |-> NullTurn,
          isInAssistantTurn |-> FALSE, isGenerating |-> FALSE, streamId |-> NoId,
          streamBuf |-> <<>>, dom |-> <<>>, wsOut |-> Sessions]

\* --------------------------------------- ChatHistory.loadSessionChunks
MsgRand == "msg-rand"      \* msg-${Date.now()}-${Math.random()}

\* a record of the persisted flat log; absent fields are empty
UserChunk(t)          == [type |-> "user", content |-> t, tool_calls |-> <<>>,
                          tool_call_id |-> "", name |-> ""]
AssistantChunk(t, tc) == [type |-> "assistant", content |-> t, tool_calls |-> tc,
                          tool_call_id |-> "", name |-> ""]
ResultChunk(i, n, t)  == [type |-> "tool_result", content |-> t, tool_calls |-> <<>>,
                          tool_call_id |-> i, name |-> n]
\* function.arguments of a tool call: absent, a string that is JSON for a
\* value (an object or null), a string that is not JSON, or an object
RawAbsent     == [kind |-> "absent", value |-> EmptyArgs]
RawJson(v)    == [kind |-> "json", value |-> v]
RawInvalid    == [kind |-> "invalid", value |-> EmptyArgs]
RawObject(v)  == [kind |-> "object", value |-> v]
\* a metadata.tool_calls entry; name "" when function or its name is absent
ToolCallWith(i, n, raw) == [id |-> i, name |-> n, arguments |-> raw]
ToolCall(i, n)        == ToolCallWith(i, n, RawAbsent)

\* parsedArgs: func.arguments || '{}', then JSON.parse(args) in try / catch,
\* an object taken as it is
ParsedArgs(raw) ==
    IF raw.kind = "json" THEN raw.value
    ELSE IF raw.kind = "object" /\ raw.value.t # "null" THEN raw.value
    ELSE EmptyArgs

\* the display getToolDisplay (render.js) returns on reload
ReloadDisplay(n, t, args) ==
    LET d == getToolDisplayJs(n, t, args) IN
    [src |-> "getToolDisplay", v |-> "", name |-> n, content |-> t,
     line1 |-> d.line1, line2 |-> d.line2, has_line2 |-> d.has_line2]

\* toolArgsMap.get(result.toolCallId || '') || {}
ArgsFor(toolArgsMap, id) ==
    IF id \in DOMAIN toolArgsMap /\ toolArgsMap[id].t # "null" THEN toolArgsMap[id]
    ELSE EmptyArgs
NoArgsMap == [i \in {} |-> EmptyArgs]

\* faulty variant: the walk starts without this.clear()
LoadStartKeep(s) ==
    [st |-> [s EXCEPT !.dom = <<>>],
     parts |-> <<>>, msgId |-> NoId, msgEl |-> 0, toolResults |-> <<>>,
     toolArgsMap |-> NoArgsMap]
\* the locals of loadSessionChunks together with the fields it writes
LoadStart(s) ==
    [st |-> [clear(s) EXCEPT !.dom = <<>>],
     parts |-> <<>>, msgId |-> NoId, msgEl |-> 0, toolResults |-> <<>>,
     toolArgsMap |-> NoArgsMap]

FirstText(parts) ==
    LET js == {j \in 1..Len(parts) : parts[j].type = "text"} IN
    IF js = {} THEN <<>> ELSE parts[CHOOSE j \in js : \A k \in js : j <= k].text

RECURSIVE AddToolCalls(_, _)
AddToolCalls(a, tcs) ==
    IF tcs = <<>> THEN a
    ELSE LET tc == Head(tcs)
             a1 == [a EXCEPT
                      !.st.dom = IF a.msgEl # 0 /\ a.st.dom[a.msgEl].intact
                                 THEN [@ EXCEPT ![a.msgEl].tools = Append(@, ToolEl(tc.id, tc.name))]
                                 ELSE @,
                      !.toolArgsMap = [i \in DOMAIN @ \cup {tc.id} |->
                                          IF i = tc.id THEN ParsedArgs(tc.arguments)
                                          ELSE @[i]],
                      !.parts = Append(@, ToolPart(tc.id, tc.name))]
         IN AddToolCalls(a1, Tail(tcs))

LoadChunk(a, chunk) ==
    IF chunk.type = "user"
    THEN LET a1 == IF Len(a.parts) > 0
                   THEN [a EXCEPT !.st.turns = Append(@, Turn("assistant", a.msgId,
                                                             FirstText(a.parts), a.parts)),
                                  !.parts = <<>>, !.msgId = NoId, !.msgEl = 0]
                   ELSE a
         IN [a1 EXCEPT !.st.messages = Append(@, Message(MsgRand, "user", chunk.content)),
                       !.st.turns = Append(@, Turn("user", MsgRand, chunk.content, <<>>)),
                       !.st.dom = Append(@, createMsgEl("user", chunk.content, MsgRand))]
    ELSE IF chunk.type = "assistant"
    THEN LET a1 ==
               IF a.msgEl # 0
               THEN IF chunk.content # <<>>
                    THEN [a EXCEPT !.st.dom[a.msgEl].extra =
                                        Append(@, ContentEl(NoId, Marked(chunk.content))),
                                   !.parts = Append(@, TextPart(chunk.content))]
                    ELSE a
               ELSE [a EXCEPT !.msgId = MsgRand,
                              !.st.messages = Append(@, Message(MsgRand, "assistant", chunk.content)),
                              !.st.dom = Append(@, createMsgEl("assistant", chunk.content, MsgRand)),
                              !.msgEl = Len(a.st.dom) + 1,
                              !.parts = IF chunk.content # <<>>
                                        THEN Append(@, TextPart(chunk.content)) ELSE @]
         IN AddToolCalls(a1, chunk.tool_calls)
    ELSE IF chunk.type = "tool_result"
    THEN [a EXCEPT !.toolResults = Append(@, [toolCallId |-> chunk.tool_call_id,
                                              toolName |-> IF chunk.name = "" THEN "unknown"
                                                           ELSE chunk.name,
                                              content |-> chunk.content])]
    ELSE a

RECURSIVE LoadChunks(_, _)
LoadChunks(a, chunks) ==
    IF chunks = <<>> THEN a ELSE LoadChunks(LoadChunk(a, Head(chunks)), Tail(chunks))

\* toolResults.forEach: a TypeError in getToolDisplay ends the loop
RECURSIVE ApplyToolResults(_, _, _)
ApplyToolResults(dom, results, toolArgsMap) ==
    IF results = <<>> THEN dom
    ELSE LET r    == Head(results)
             args == ArgsFor(toolArgsMap, r.toolCallId)
         IN IF getToolDisplayJs(r.toolName, r.content, args).raised THEN dom
            ELSE ApplyToolResults(
                     updateToolElement(dom, ToolById(dom, r.toolCallId), r.toolName,
                                       ReloadDisplay(r.toolName, r.content, args), TRUE),
                     Tail(results), toolArgsMap)

\* loadSessionChunks is left by an exception
LoadRaises(chunks) ==
    \E k \in 1..Len(chunks) :
        /\ chunks[k].type = "tool_result"
        /\ getToolDisplayJs(IF chunks[k].name = "" THEN "unknown" ELSE chunks[k].name,
                            chunks[k].content,
                            ArgsFor(LoadChunks(LoadStart(Fresh), chunks).toolArgsMap,
                                    chunks[k].tool_call_id)).raised

\* handleSessionLoad of the bundled app.js parses the arguments outside any
\* try block: JSON.parse raises a SyntaxError on a string that is not JSON
handleSessionLoadRaises(chunks) ==
    \E k \in 1..Len(chunks) : \E c \in 1..Len(chunks[k].tool_calls) :
        chunks[k].tool_calls[c].arguments.kind = "invalid"

\* faulty variant: the parts left when the log ends are not pushed
loadSessionChunksNoFlush(s, chunks) ==
    LET a == LoadChunks(LoadStart(s), chunks)
    IN [a.st EXCEPT !.dom = ApplyToolResults(@, a.toolResults, a.toolArgsMap)]

loadSessionChunks(s, chunks) ==
    LET a  == LoadChunks(LoadStart(s), chunks)
        a1 == IF Len(a.parts) > 0
              THEN [a EXCEPT !.st.turns = Append(@, Turn("assistant", a.msgId,
                                                        FirstText(a.parts), a.parts))]
              ELSE a
    IN [a1.st EXCEPT !.dom = ApplyToolResults(@, a1.toolResults, a1.toolArgsMap)]

\* handlers[event]?.() for an event name that is no key of the handler
\* table.  handlers is an object literal, so the lookup also finds what it
\* inherits from Object.prototype: nothing for most names (the call is
\* skipped), a function for names such as 'toString' (called, it returns a
\* value and changes nothing), and for '__proto__' the prototype object
\* itself, which is not nullish and not callable: the call raises a TypeError.
OtherEvents == {"no_such_event", "toString", "__proto__"}
Inherited(event) ==
    IF event = "__proto__" THEN "object"
    ELSE IF event \in {"toString", "valueOf", "constructor"} THEN "function"
    ELSE "undefined"
handleOther(s, event) == [raised |-> Inherited(event) = "object", st |-> s]

\* ---------------------------------------------------------------- state
VARIABLES
    messages, turns, currentTurn, isInAssistantTurn,   \* ChatHistory
    isGenerating, streamId, streamBuf,                 \* AppState
    dom,                                               \* children of dom.messages
    wsOut,                                             \* last text given to ws.send
    wire,       \* the server's text stream in flight: its id number (0: none), the
                \* text sent so far, the number of chunks, and whether the turn that
                \* was open at stream_start is still the open one
    started,    \* the name the server last started each tool id with ("": never)
    silent,     \* phase "open": a stay_silent tool_start discarded an open turn
                \* (of that many parts) and only tool_result events have followed;
                \* "done": the turn_end after it has been handled; "late": a
                \* message was accepted while that turn_end was still to come
    ev,         \* the event handled last
    count,      \* events handled so far (all, stream starts, others) and the
                \* number of events of a run
    log,        \* RoundTrip only: the flat log the server has persisted
    beTurn,     \* RoundTrip only: the server is answering a user message
    sidebarVisible, rightSidebarVisible,               \* AppState (sidebars)
    localStorage,                                      \* the two sidebar keys
    cachedSessions,                                    \* AppState.cachedSessions
    currentSessionId,                                  \* ChatHistory.currentSessionId
    activeItem,     \* data-id of the .history-item--active element ("": none)
    pythonProcess, isServerReady,                      \* Electron main process
    children,       \* the ChildProcess objects spawned so far and their processes
    timers,         \* pending SIGKILL timers, each with the process whose stop set it
    quitting        \* Electron main process: before-quit has run

prog == <<messages, turns, currentTurn, isInAssistantTurn, isGenerating,
          streamId, streamBuf, dom, wsOut>>
shell == <<sidebarVisible, rightSidebarVisible, localStorage, cachedSessions,
           currentSessionId, activeItem>>
electron == <<pythonProcess, isServerReady, children, timers, quitting>>
vars == <<messages, turns, currentTurn, isInAssistantTurn, isGenerating,
          streamId, streamBuf, dom, wsOut, wire, started, silent, ev, count,
          log, beTurn, shell, electron>>

Cur == [messages |-> messages, turns |-> turns, currentTurn |-> currentTurn,
        isInAssistantTurn |-> isInAssistantTurn, isGenerating |-> isGenerating,
        streamId |-> streamId, streamBuf |-> streamBuf, dom |-> dom, wsOut |-> wsOut]

\* what a handler of the chat leaves behind; the sidebars, the session list
\* and the Electron main process are not touched by it
InstallChat(s) ==
    /\ messages' = s.messages
    /\ turns' = s.turns
    /\ currentTurn' = s.currentTurn
    /\ isInAssistantTurn' = s.isInAssistantTurn
    /\ isGenerating' = s.isGenerating
    /\ streamId' = s.streamId
    /\ streamBuf' = s.streamBuf
    /\ dom' = s.dom
    /\ wsOut' = s.wsOut
Install(s) == InstallChat(s) /\ UNCHANGED <<shell, electron>>

NotSilent == [phase |-> "none", parts |-> 0]
NoWire == [sid |-> 0, text |-> <<>>, chunks |-> 0, inTurn |-> FALSE]
Event(n, i, t) == [name |-> n, id |-> i, tool |-> t]

\* AppState as declared, nothing stored, no session list received yet
NoSession == "null"
InitShell ==
    /\ sidebarVisible = TRUE
    /\ rightSidebarVisible = FALSE
    /\ localStorage = [sidebar |-> "null", right |-> "null"]
    /\ cachedSessions = <<>>
    /\ currentSessionId = NoSession
    /\ activeItem = ""
\* main.js as loaded: let pythonProcess = null, let isServerReady = false
NoProcess == 0
InitElectron ==
    /\ pythonProcess = NoProcess
    /\ isServerReady = FALSE
    /\ children = <<>>
    /\ timers = {}
    /\ quitting = FALSE

\* the fields of ChatHistory and AppState as declared, an empty message
\* list, and the '/sessions' request ws.onopen sends
Init ==
    /\ messages = <<>>
    /\ turns = <<>>
    /\ currentTurn = NullTurn
    /\ isInAssistantTurn = FALSE
    /\ isGenerating = FALSE
    /\ streamId = NoId
    /\ streamBuf = <<>>
    /\ dom = <<>>
    /\ wsOut = Sessions
    /\ wire = NoWire
    /\ started = [i \in ToolIds |-> ""]
    /\ silent = NotSilent
    /\ ev = Event("init", "", "")
    /\ count = [total |-> 0, stream |-> 0, other |-> 0, limit |-> MaxEvents]
    /\ log = <<>>
    /\ beTurn = FALSE
    /\ InitShell
    /\ InitElectron

\* every handled event counts; a stream start also takes the next stream id
More == count.total < count.limit
Tick == count' = [count EXCEPT !.total = @ + 1]
MoreOther == More /\ count.other < MaxOther
TickOther == count' = [count EXCEPT !.total = @ + 1, !.other = @ + 1]

\* ------------------------------------------- event handling (handleEvent)
\* Each definition is one entry of the handlers table (or the submit
\* listener) together with what the server side knows afterwards.

Accepted(input) ==
    LET msg == Trim(input) IN ~isGenerating /\ msg # <<>> /\ Head(msg) # "/"

\* dom.form 'submit' / Enter in dom.input
OnSubmit(input) ==
    /\ More
    /\ Install(handleSubmit(Cur, input))
    /\ Tick
    /\ silent' = IF silent.phase = "open" /\ Accepted(input)
                 THEN [silent EXCEPT !.phase = "late"] ELSE NotSilent
    /\ wire' = IF Accepted(input) THEN [wire EXCEPT !.inTurn = FALSE] ELSE wire
    /\ ev' = Event("submit", IF isGenerating THEN "stop"
                              ELSE IF Accepted(input) THEN "message"
                              ELSE IF Trim(input) = <<>> THEN "empty" ELSE "command", "")
    /\ UNCHANGED started

\* 'assistant_stream_start'
OnStreamStart ==
    /\ More
    /\ wire.sid = 0
    /\ count.stream < MaxStreams
    /\ LET n == count.stream + 1 IN
       /\ Install(startStream(Cur, StreamIdOf(n)))
       /\ wire' = [sid |-> n, text |-> <<>>, chunks |-> 0, inTurn |-> isInAssistantTurn]
       /\ ev' = Event("stream_start", StreamIdOf(n), "")
    /\ count' = [count EXCEPT !.total = @ + 1, !.stream = @ + 1]
    /\ silent' = NotSilent
    /\ UNCHANGED started

\* 'assistant_stream_chunk'
OnStreamChunk(text) ==
    /\ More
    /\ wire.sid # 0
    /\ Install(appendStream(Cur, StreamIdOf(wire.sid), text))
    /\ wire' = [wire EXCEPT !.text = @ \o text, !.chunks = @ + 1]
    /\ ev' = Event("stream_chunk", StreamIdOf(wire.sid), "")
    /\ silent' = NotSilent
    /\ Tick
    /\ UNCHANGED started

\* 'assistant_stream_end'
OnStreamEnd ==
    /\ More
    /\ wire.sid # 0
    /\ Install(endStream(Cur, StreamIdOf(wire.sid)))
    /\ wire' = NoWire
    /\ ev' = Event("stream_end", StreamIdOf(wire.sid), "")
    /\ silent' = NotSilent
    /\ Tick
    /\ UNCHANGED started

\* 'tool_start': the server starts tools between text streams
OnToolStart(id, name) ==
    /\ More
    /\ wire.sid = 0
    /\ Install(createTool(Cur, id, name))
    /\ started' = [started EXCEPT ![id] = name]
    /\ Tick
    /\ silent' = IF name = "stay_silent" /\ currentTurn # NullTurn /\ isInAssistantTurn
                 THEN [phase |-> "open", parts |-> Len(currentTurn.parts)]
                 ELSE NotSilent
    /\ wire' = wire
    /\ ev' = Event("tool_start", id, name)

\* 'tool_result': the server names the tool it started under the id
ResultName(id) == IF started[id] = "" THEN "read_file" ELSE started[id]
OnToolResult(id, r) ==
    /\ More
    /\ Install(updateTool(Cur, id, ResultName(id), BackendDisplay(r.display), r.success))
    /\ ev' = Event("tool_result", id, ResultName(id))
    /\ wire' = IF currentTurn # NullTurn /\ currentTurn' = NullTurn
               THEN [wire EXCEPT !.inTurn = FALSE] ELSE wire
    /\ Tick
    /\ UNCHANGED <<started, silent>>

\* 'turn_end': the server has finished or was stopped; what it was
\* streaming is abandoned
OnTurnEnd ==
    /\ More
    /\ Install(turnEnd(Cur))
    /\ wire' = NoWire
    /\ silent' = IF silent.phase = "open" THEN [silent EXCEPT !.phase = "done"]
                 ELSE NotSilent
    /\ ev' = Event("turn_end", "", "")
    /\ Tick
    /\ UNCHANGED started

\* 'system_message'
OnSystemMessage ==
    /\ MoreOther
    /\ Install([Cur EXCEPT !.dom = Append(@, SysMsgEl)])
    /\ ev' = Event("system_message", "", "")
    /\ silent' = NotSilent
    /\ TickOther
    /\ UNCHANGED <<wire, started>>

\* 'new_chat': the server has switched to an empty session
OnNewChat ==
    /\ MoreOther
    /\ Install(newChat(Cur))
    /\ wire' = [wire EXCEPT !.inTurn = FALSE]
    /\ silent' = NotSilent
    /\ ev' = Event("new_chat", "", "")
    /\ TickOther
    /\ UNCHANGED started

\* 'session_load' with the chunks of a stored session
OnSessionLoad(chunks) ==
    /\ MoreOther
    /\ Install(loadSessionChunks(Cur, chunks))
    /\ wire' = [wire EXCEPT !.inTurn = FALSE]
    /\ silent' = NotSilent
    /\ ev' = Event("session_load", "", "")
    /\ TickOther
    /\ UNCHANGED started

\* an event name without an entry in handlers: handlers[event]?.()
OnUnknownEvent(event) ==
    /\ MoreOther
    /\ LET r == handleOther(Cur, event) IN
       /\ Install(r.st)
       /\ ev' = Event("unknown", event, IF r.raised THEN "TypeError" ELSE "")
    /\ TickOther
    /\ UNCHANGED <<wire, started, silent>>

\* ------------------------------------------------ the application (Spec)
\* Events arrive in any order the transport can deliver them; a text
\* stream is delivered as start, chunks, end.
StoredSessions ==
    {<<>>,
     <<UserChunk(<<"h">>),
       AssistantChunk(<<>>, <<ToolCall("t1", "read_file")>>),
       AssistantChunk(<<"a">>, <<>>),
       ResultChunk("t1", "read_file", <<"r">>)>>}

Submit(input)       == OnSubmit(input) /\ UNCHANGED <<log, beTurn>>
StreamStart         == OnStreamStart /\ UNCHANGED <<log, beTurn>>
StreamChunk(text)   == OnStreamChunk(text) /\ UNCHANGED <<log, beTurn>>
StreamEnd           == OnStreamEnd /\ UNCHANGED <<log, beTurn>>
ToolStart(id, name) == OnToolStart(id, name) /\ UNCHANGED <<log, beTurn>>
ToolResult(id, r)   == OnToolResult(id, r) /\ UNCHANGED <<log, beTurn>>
TurnEnd             == OnTurnEnd /\ UNCHANGED <<log, beTurn>>
SystemMessage       == OnSystemMessage /\ UNCHANGED <<log, beTurn>>
NewChat             == OnNewChat /\ UNCHANGED <<log, beTurn>>
SessionLoad(chunks) == OnSessionLoad(chunks) /\ UNCHANGED <<log, beTurn>>
UnknownEvent(event) == OnUnknownEvent(event) /\ UNCHANGED <<log, beTurn>>

Next ==
    \/ \E input \in UserInputs : Submit(input)
    \/ StreamStart
    \/ \E text \in ChunkTexts : StreamChunk(text)
    \/ StreamEnd
    \/ \E id \in ToolIds, name \in ToolNames : ToolStart(id, name)
    \/ \E id \in ToolIds, r \in Results : ToolResult(id, r)
    \/ TurnEnd
    \/ SystemMessage
    \/ NewChat
    \/ \E chunks \in StoredSessions : SessionLoad(chunks)
    \/ \E event \in OtherEvents : UnknownEvent(event)

Spec == Init /\ [][Next]_vars

\* -------------------------------------------- plain turns (SpecRoundTrip)
\* The server answers one user message at a time: text streams of at least
\* one chunk, tools with fresh ids and one result each, then turn_end.  It
\* persists one user record per message, one assistant record per text
\* stream (a tool call joins the assistant record written last, or opens
\* one without content) and one tool_result record per result.
RoundTripExtra == MaxEvents + 2

LogToolStart(l, id, name) ==
    IF l # <<>> /\ l[Len(l)].type = "assistant"
    THEN [l EXCEPT ![Len(l)].tool_calls = Append(@, ToolCall(id, name))]
    ELSE Append(l, AssistantChunk(<<>>, <<ToolCall(id, name)>>))

Resolved(l, id) == \E k \in 1..Len(l) : l[k].type = "tool_result" /\ l[k].tool_call_id = id

InitRoundTrip ==
    /\ messages = <<>>
    /\ turns = <<>>
    /\ currentTurn = NullTurn
    /\ isInAssistantTurn = FALSE
    /\ isGenerating = FALSE
    /\ streamId = NoId
    /\ streamBuf = <<>>
    /\ dom = <<>>
    /\ wsOut = Sessions
    /\ wire = NoWire
    /\ started = [i \in ToolIds |-> ""]
    /\ silent = NotSilent
    /\ ev = Event("init", "", "")
    /\ count = [total |-> 0, stream |-> 0, other |-> 0, limit |-> RoundTripExtra]
    /\ log = <<>>
    /\ beTurn = FALSE
    /\ InitShell
    /\ InitElectron

RTSubmit(input) ==
    /\ ~beTurn
    /\ Accepted(input)
    /\ OnSubmit(input)
    /\ log' = Append(log, UserChunk(Trim(input)))
    /\ beTurn' = TRUE

RTStreamStart ==
    /\ beTurn
    /\ OnStreamStart
    /\ UNCHANGED <<log, beTurn>>

RTStreamChunk(text) ==
    /\ OnStreamChunk(text)
    /\ UNCHANGED <<log, beTurn>>

RTStreamEnd ==
    /\ wire.chunks >= 1
    /\ OnStreamEnd
    /\ log' = Append(log, AssistantChunk(wire.text, <<>>))
    /\ UNCHANGED beTurn

RTToolStart(id) ==
    /\ beTurn
    /\ started[id] = ""
    /\ OnToolStart(id, "read_file")
    /\ log' = LogToolStart(log, id, "read_file")
    /\ UNCHANGED beTurn

RTToolResult(id, r) ==
    /\ beTurn
    /\ wire.sid = 0
    /\ started[id] # ""
    /\ ~Resolved(log, id)
    /\ OnToolResult(id, r)
    /\ log' = Append(log, ResultChunk(id, started[id], <<"r">>))
    /\ UNCHANGED beTurn

RTTurnEnd ==
    /\ beTurn
    /\ wire.sid = 0
    /\ OnTurnEnd
    /\ beTurn' = FALSE
    /\ UNCHANGED log

NextRoundTrip ==
    \/ \E input \in UserInputs : RTSubmit(input)
    \/ RTStreamStart
    \/ \E text \in ChunkTexts : RTStreamChunk(text)
    \/ RTStreamEnd
    \/ \E id \in ToolIds : RTToolStart(id)
    \/ \E id \in ToolIds, r \in Results : RTToolResult(id, r)
    \/ RTTurnEnd

SpecRoundTrip == InitRoundTrip /\ [][NextRoundTrip]_vars

\* --------------------------------------- suppressed turns (SpecSilent)
\* The plain turns of SpecRoundTrip, where the model may also answer with
\* the stay_silent tool.  The call is persisted like any tool call; after
\* it the server sends the tool's result and turn_end, nothing else.
AfterSilent == silent.phase = "open"

SLSilentStart(id) ==
    /\ beTurn
    /\ ~AfterSilent
    /\ started[id] = ""
    /\ OnToolStart(id, "stay_silent")
    /\ log' = LogToolStart(log, id, "stay_silent")
    /\ UNCHANGED beTurn

SLStreamStart   == ~AfterSilent /\ RTStreamStart
SLToolStart(id) == ~AfterSilent /\ RTToolStart(id)

NextSilent ==
    \/ \E input \in UserInputs : RTSubmit(input)
    \/ SLStreamStart
    \/ \E text \in ChunkTexts : RTStreamChunk(text)
    \/ RTStreamEnd
    \/ \E id \in ToolIds : SLToolStart(id)
    \/ \E id \in ToolIds : SLSilentStart(id)
    \/ \E id \in ToolIds, r \in Results : RTToolResult(id, r)
    \/ RTTurnEnd

SpecSilent == InitRoundTrip /\ [][NextSilent]_vars

\* ------------------------------------- ChatHistory alone (SpecChatHistory)
\* ChatHistory is an exported object: its methods called in any order.
CallInstall(s, name) ==
    /\ More
    /\ Install(s)
    /\ Tick
    /\ ev' = Event(name, "", "")
    /\ UNCHANGED <<wire, started, silent, log, beTurn>>

CallAddUserMessage(text) == CallInstall(addUserMessage(Cur, text), "addUserMessage")
CallOnStreamStart(id)    == CallInstall(onStreamStart(Cur, id), "onStreamStart")
CallOnStreamEnd(text)    == CallInstall(onStreamEnd(Cur, text), "onStreamEnd")
CallAddTool(id, name)    == CallInstall(addTool(Cur, id, name), "addTool")
CallEndAssistantTurn     == CallInstall(endAssistantTurn(Cur), "endAssistantTurn")
CallClear                == CallInstall(clear(Cur), "clear")

NextChatHistory ==
    \/ \E text \in {<<"h">>} : CallAddUserMessage(text)
    \/ \E id \in {"s1", "s2"} : CallOnStreamStart(id)
    \/ \E text \in ChunkTexts \cup {<<>>} : CallOnStreamEnd(text)
    \/ \E id \in ToolIds : CallAddTool(id, "read_file")
    \/ CallEndAssistantTurn
    \/ CallClear

SpecChatHistory == Init /\ [][NextChatHistory]_vars

\* ------------------------------------------------ reloading (SpecReload)
\* A few live events (messages, tools, turn ends), then 'session_load' events with any flat log of up to
\* MaxLogLen records; a log may be sent again.  `log` is the log loaded last.
MaxLogLen == 3
MaxPrior  == 1

\* arguments of a read_file call: {"file_path": "d/f"}, and the ill-typed
\* {"file_path": 5}
GoodArgs == ArgsObject([file_path |-> JStr(<<"d", "/", "f">>)])
BadArgs  == ArgsObject([file_path |-> JNum(5)])

LogRecords ==
    {UserChunk(<<"h">>),
     AssistantChunk(<<"a">>, <<>>),
     AssistantChunk(<<>>, <<>>),
     AssistantChunk(<<>>, <<ToolCallWith("t1", "read_file", RawJson(GoodArgs))>>),
     AssistantChunk(<<"b">>, <<ToolCallWith("t2", "read_file", RawJson(BadArgs))>>),
     AssistantChunk(<<>>, <<ToolCallWith("t1", "", RawInvalid)>>),
     ResultChunk("t1", "read_file", <<"r">>),
     ResultChunk("t2", "read_file", <<"r">>)}

RECURSIVE LogsOfLen(_)
LogsOfLen(n) ==
    IF n = 0 THEN {<<>>}
    ELSE {Append(l, c) : l \in LogsOfLen(n - 1), c \in LogRecords}
Logs == UNION {LogsOfLen(n) : n \in 0..MaxLogLen}

InitReload ==
    /\ messages = <<>>
    /\ turns = <<>>
    /\ currentTurn = NullTurn
    /\ isInAssistantTurn = FALSE
    /\ isGenerating = FALSE
    /\ streamId = NoId
    /\ streamBuf = <<>>
    /\ dom = <<>>
    /\ wsOut = Sessions
    /\ wire = NoWire
    /\ started = [i \in ToolIds |-> ""]
    /\ silent = NotSilent
    /\ ev = Event("init", "", "")
    /\ count = [total |-> 0, stream |-> 0, other |-> 0, limit |-> MaxPrior]
    /\ log = <<>>
    /\ beTurn = FALSE
    /\ InitShell
    /\ InitElectron

\* beTurn: a session_load has been handled
RLSubmit(input)     == ~beTurn /\ OnSubmit(input) /\ UNCHANGED <<log, beTurn>>
RLToolStart(id)     == ~beTurn /\ OnToolStart(id, "read_file") /\ UNCHANGED <<log, beTurn>>
RLTurnEnd           == ~beTurn /\ OnTurnEnd /\ UNCHANGED <<log, beTurn>>

\* 'session_load' with the chunks of any log: the server has switched to the
\* stored session, nothing of the previous one is in flight, and the run
\* handles no further live event
RLSessionLoad(chunks) ==
    /\ ~beTurn
    /\ Install(loadSessionChunks(Cur, chunks))
    /\ log' = chunks
    /\ beTurn' = TRUE
    /\ wire' = NoWire
    /\ started' = [i \in ToolIds |-> ""]
    /\ count' = [total |-> count.limit, stream |-> 0, other |-> 0, limit |-> count.limit]
    /\ silent' = NotSilent
    /\ ev' = Event("session_load", "", "")

\* 'session_load' with the same chunks once more
RLSessionLoadAgain ==
    /\ beTurn
    /\ ev.name = "session_load"
    /\ Install(loadSessionChunks(Cur, log))
    /\ ev' = Event("session_load", "again", "")
    /\ UNCHANGED <<log, beTurn, wire, silent, started, count>>

NextReload ==
    \/ \E input \in UserInputs : RLSubmit(input)
    \/ \E id \in ToolIds : RLToolStart(id)
    \/ RLTurnEnd
    \/ \E chunks \in Logs : RLSessionLoad(chunks)
    \/ RLSessionLoadAgain

SpecReload == InitReload /\ [][NextReload]_vars

\* ------------------------------------ sidebars and sessions (SpecPage)
\* The page after initSidebarState and a 'session_list' event: the user
\* sends messages, the server starts tools and ends turns, and the user
\* clicks in the history list, on the new-chat button and on the toolbar,
\* and presses Ctrl+B / Ctrl+E.
MaxPageEvents == 4

BoolStr(b) == IF b THEN "true" ELSE "false"
StoredFlags == {"null", "true", "false"}

\* AppState.init() and initSidebarState(): the stored flags, the right
\* sidebar closing the left one
initSidebarState(ls) ==
    LET left  == IF ls.sidebar # "null" THEN ls.sidebar = "true" ELSE TRUE
        right == ls.right = "true"
    IN [sidebarVisible |-> IF right THEN FALSE ELSE left, rightSidebarVisible |-> right]

\* updateToolbarVisibility(): style.display of the two toggle buttons
ToggleSidebarBtnShown == ~rightSidebarVisible
ToggleRightSidebarBtnShown == ~sidebarVisible

SessionIds == {"sa", "sb"}
Session(i, n) == [session_id |-> i, message_count |-> n]
SessionLists ==
    {<<Session("sa", 2)>>,
     <<Session("sa", 2), Session("sb", 0)>>,
     <<Session("sa", 2), Session("sb", 1)>>}
Listed(i) == \E k \in 1..Len(cachedSessions) : cachedSessions[k].session_id = i
\* cachedSessions.find(s => s.message_count === 0): index of the first, or 0
FirstEmpty ==
    LET ks == {k \in 1..Len(cachedSessions) : cachedSessions[k].message_count = 0}
    IN IF ks = {} THEN 0 ELSE CHOOSE k \in ks : \A j \in ks : k <= j
CurrentIsEmpty ==
    \E k \in 1..Len(cachedSessions) :
        /\ cachedSessions[k].session_id = currentSessionId
        /\ cachedSessions[k].message_count = 0

LoadCmd(i)   == <<"/", "load", " ", i>>
DeleteCmd(i) == <<"/", "delete-session", " ", i>>
NewCmd       == <<"/", "new">>

InitPage ==
    /\ Init!1 /\ Init!2 /\ Init!3 /\ Init!4 /\ Init!5 /\ Init!6 /\ Init!7
    /\ Init!8 /\ Init!9 /\ Init!10 /\ Init!11 /\ Init!12 /\ Init!13
    /\ count = [total |-> 0, stream |-> 0, other |-> 0, limit |-> MaxPageEvents]
    /\ Init!15 /\ Init!16 /\ Init!18
    /\ localStorage \in [sidebar : StoredFlags, right : StoredFlags]
    /\ sidebarVisible = initSidebarState(localStorage).sidebarVisible
    /\ rightSidebarVisible = initSidebarState(localStorage).rightSidebarVisible
    /\ cachedSessions \in SessionLists
    /\ currentSessionId \in {cachedSessions[k].session_id : k \in 1..Len(cachedSessions)}
    /\ activeItem = currentSessionId

UserEvent(kind, what, arg) ==
    /\ More
    /\ Tick
    /\ ev' = Event(kind, what, arg)
    /\ UNCHANGED <<wire, started, silent, log, beTurn, electron>>

\* click on a session's delete button (dom.historyList listener)
ClickDelete(i) ==
    /\ Listed(i)
    /\ UserEvent("click", "delete", i)
    /\ InstallChat(IF isGenerating \/ i = currentSessionId \/ activeItem = i
                   THEN Cur ELSE [Cur EXCEPT !.wsOut = DeleteCmd(i)])
    /\ UNCHANGED shell

\* click on a history item (dom.historyList listener)
ClickHistoryItem(i) ==
    /\ Listed(i)
    /\ UserEvent("click", "item", i)
    /\ InstallChat(IF isGenerating THEN Cur ELSE [Cur EXCEPT !.wsOut = LoadCmd(i)])
    /\ UNCHANGED shell

\* faulty variant: the new-chat button does not look at isGenerating
ClickNewChatUnguarded ==
    /\ UserEvent("click", "new", "")
    /\ IF CurrentIsEmpty
       THEN InstallChat([clear(Cur) EXCEPT !.dom = <<>>]) /\ activeItem' = currentSessionId
       ELSE IF FirstEmpty # 0
       THEN /\ InstallChat([Cur EXCEPT !.wsOut = LoadCmd(cachedSessions[FirstEmpty].session_id)])
            /\ UNCHANGED activeItem
       ELSE InstallChat([Cur EXCEPT !.wsOut = NewCmd]) /\ UNCHANGED activeItem
    /\ UNCHANGED <<sidebarVisible, rightSidebarVisible, localStorage, cachedSessions,
                   currentSessionId>>

\* click on the new-chat button (dom.newChatBtn listener; the toolbar's
\* new-chat button clicks it)
ClickNewChat ==
    /\ UserEvent("click", "new", "")
    /\ IF isGenerating THEN InstallChat(Cur) /\ UNCHANGED activeItem
       ELSE IF CurrentIsEmpty
       THEN InstallChat([clear(Cur) EXCEPT !.dom = <<>>]) /\ activeItem' = currentSessionId
       ELSE IF FirstEmpty # 0
       THEN /\ InstallChat([Cur EXCEPT !.wsOut = LoadCmd(cachedSessions[FirstEmpty].session_id)])
            /\ UNCHANGED activeItem
       ELSE InstallChat([Cur EXCEPT !.wsOut = NewCmd]) /\ UNCHANGED activeItem
    /\ UNCHANGED <<sidebarVisible, rightSidebarVisible, localStorage, cachedSessions,
                   currentSessionId>>

toggleSidebar ==
    /\ sidebarVisible' = ~sidebarVisible
    /\ localStorage' = [localStorage EXCEPT !.sidebar = BoolStr(~sidebarVisible)]
    /\ UNCHANGED <<rightSidebarVisible, cachedSessions, currentSessionId, activeItem>>
    /\ InstallChat(Cur)

toggleRightSidebar ==
    /\ rightSidebarVisible' = ~rightSidebarVisible
    /\ localStorage' = [localStorage EXCEPT !.right = BoolStr(~rightSidebarVisible)]
    /\ UNCHANGED <<sidebarVisible, cachedSessions, currentSessionId, activeItem>>
    /\ InstallChat(Cur)

\* a button with style.display 'none' takes no click
ClickToggleSidebar ==
    ToggleSidebarBtnShown /\ UserEvent("click", "toggle-sidebar", "") /\ toggleSidebar
ClickToggleRightSidebar ==
    ToggleRightSidebarBtnShown /\ UserEvent("click", "toggle-right-sidebar", "")
                               /\ toggleRightSidebar
\* document 'keydown' listener
KeyCtrlB == UserEvent("keydown", "b", "") /\ toggleSidebar
KeyCtrlE == UserEvent("keydown", "e", "") /\ toggleRightSidebar

NextPage ==
    \/ \E input \in UserInputs : Submit(input)
    \/ \E id \in ToolIds : ToolStart(id, "read_file")
    \/ TurnEnd
    \/ \E i \in SessionIds : ClickDelete(i)
    \/ \E i \in SessionIds : ClickHistoryItem(i)
    \/ ClickNewChat
    \/ ClickToggleSidebar
    \/ ClickToggleRightSidebar
    \/ KeyCtrlB
    \/ KeyCtrlE

SpecPage == InitPage /\ [][NextPage]_vars

\* ------------------------------------ Electron main process (SpecMain)
\* main.js starts the Python backend when the app is ready, restarts it on
\* 'restart-backend', and stops it before quitting.  A child process exits
\* when it likes (a signal it was sent, a crash); timers fire any time after
\* they were set.  Child processes are numbered in the order of spawning.
MaxSpawns == 3
Pids == 1..MaxSpawns
Spawned(p) == p \in DOMAIN children

MainCur == [pythonProcess |-> pythonProcess, isServerReady |-> isServerReady,
            children |-> children, timers |-> timers]
InstallMain(m) ==
    /\ pythonProcess' = m.pythonProcess
    /\ isServerReady' = m.isServerReady
    /\ children' = m.children
    /\ timers' = m.timers

\* child.kill(signal): delivered to a process that has not exited, and
\* then child.killed is true
kill(m, p, signal) ==
    IF m.children[p].alive
    THEN [m EXCEPT !.children[p].killed = TRUE, !.children[p].signal = signal]
    ELSE m

\* the callback stopPythonBackend hands to setTimeout(..., 3000)
killTimer(m) ==
    IF m.pythonProcess # NoProcess /\ ~m.children[m.pythonProcess].killed
    THEN kill(m, m.pythonProcess, "SIGKILL")
    ELSE m

\* the timer is remembered with the process whose stop has set it
stopPythonBackend(m) ==
    IF m.pythonProcess # NoProcess
    THEN [kill(m, m.pythonProcess, "SIGTERM") EXCEPT
              !.timers = @ \cup {m.pythonProcess},
              !.pythonProcess = NoProcess,
              !.isServerReady = FALSE]
    ELSE [m EXCEPT !.isServerReady = FALSE]

\* startPythonBackend up to its await: pythonProcess = spawn(...)
startPythonBackend(m) ==
    [m EXCEPT !.children = Append(@, [alive |-> TRUE, killed |-> FALSE, signal |-> ""]),
              !.pythonProcess = Len(m.children) + 1]

onServerReady(m) == [m EXCEPT !.isServerReady = TRUE]

\* pythonProcess.on('exit', ...) of child p
exitHandler(m, p) ==
    [m EXCEPT !.children[p].alive = FALSE,
              !.pythonProcess = NoProcess,
              !.isServerReady = FALSE]

MainEvent(name, target) ==
    /\ ~quitting
    /\ ev' = [name |-> name, id |-> "", tool |-> "", target |-> target]
    /\ UNCHANGED <<prog, shell, wire, started, silent, count, log, beTurn>>

\* app.whenReady()
WhenReady ==
    /\ children = <<>>
    /\ MainEvent("ready", 1)
    /\ InstallMain(startPythonBackend(MainCur))
    /\ UNCHANGED quitting

\* ipcMain.handle('restart-backend')
RestartBackend ==
    /\ children # <<>>
    /\ Len(children) < MaxSpawns
    /\ MainEvent("restart-backend", Len(children) + 1)
    /\ InstallMain(startPythonBackend(stopPythonBackend(MainCur)))
    /\ UNCHANGED quitting

\* a line of a running child's output announces the server
ServerOutput(p) ==
    /\ Spawned(p)
    /\ children[p].alive
    /\ MainEvent("stdout", p)
    /\ InstallMain(onServerReady(MainCur))
    /\ UNCHANGED quitting

\* child p exits; the main process may already be quitting
ChildExit(p) ==
    /\ Spawned(p)
    /\ children[p].alive
    /\ ev' = [name |-> "exit", id |-> "", tool |-> "", target |-> p]
    /\ UNCHANGED <<prog, shell, wire, started, silent, count, log, beTurn>>
    /\ InstallMain(exitHandler(MainCur, p))
    /\ UNCHANGED quitting

\* the timer set by the stop of child p fires
TimerFires(p) ==
    /\ p \in timers
    /\ MainEvent("timer", p)
    /\ InstallMain([killTimer(MainCur) EXCEPT !.timers = @ \ {p}])
    /\ UNCHANGED quitting

\* app.on('before-quit')
BeforeQuit ==
    /\ children # <<>>
    /\ MainEvent("before-quit", pythonProcess)
    /\ InstallMain(stopPythonBackend(MainCur))
    /\ quitting' = TRUE

NextMain ==
    \/ WhenReady
    \/ RestartBackend
    \/ \E p \in Pids : ServerOutput(p)
    \/ \E p \in Pids : ChildExit(p)
    \/ \E p \in Pids : TimerFires(p)
    \/ BeforeQuit

SpecMain == Init /\ [][NextMain]_vars

\* ================================================================ claims
Last(q) == q[Len(q)]
IsPrefix(a, b) == Len(a) <= Len(b) /\ SubSeq(b, 1, Len(a)) = a

\* roles and part sequences of a turn list (what structural equality compares)
Shape(ts) == [i \in 1..Len(ts) |-> [role |-> ts[i].role, parts |-> ts[i].parts]]

\* the turn list loadSessionChunks builds from the persisted log
Reconstructed == loadSessionChunks(Cur, log).turns

\* C1: after every turn_end of a run of plain turns, the live turn list is
\* structurally equal (length, roles, part sequences) to the turn list
\* reconstructed from the flat log of the same events.
C1_RoundTrip ==
    (~beTurn /\ wire.sid = 0) => Shape(turns) = Shape(Reconstructed)

\* C2: with tools A and B started in that order in the open turn, applying
\* their results in either order gives the same state, leaves the parts as
\* they are, and leaves each tool element with the status and summary of
\* the result that carries its id.
PartIndex(parts, id) ==
    {k \in 1..Len(parts) : parts[k].type = "tool" /\ parts[k].id = id}
StartedInOrder(A, B) ==
    /\ A # B
    /\ currentTurn # NullTurn /\ isInAssistantTurn
    /\ \E i \in PartIndex(currentTurn.parts, A), j \in PartIndex(currentTurn.parts, B) : i < j
    /\ Cardinality(ToolLocs(dom, A)) = 1
    /\ Cardinality(ToolLocs(dom, B)) = 1
Carries(s, id, r) ==
    LET p == ToolById(s.dom, id) IN
    /\ p[1] # 0
    /\ ToolElAt(s.dom, p).display = BackendDisplay(r.display)
    /\ ToolElAt(s.dom, p).status = IF r.success THEN "success" ELSE "error"
C2_OrderIndependent ==
    \A A, B \in ToolIds : \A rA, rB \in Results :
        StartedInOrder(A, B) =>
            LET nA == started[A]
                nB == started[B]
                ab == updateTool(updateTool(Cur, A, nA, BackendDisplay(rA.display), rA.success),
                                 B, nB, BackendDisplay(rB.display), rB.success)
                ba == updateTool(updateTool(Cur, B, nB, BackendDisplay(rB.display), rB.success),
                                 A, nA, BackendDisplay(rA.display), rA.success)
            IN /\ ab = ba
               /\ ab.currentTurn = currentTurn
               /\ ab.turns = turns
               /\ Carries(ab, A, rA)
               /\ Carries(ab, B, rB)
\* reached: B's result was handled before A's, with different results
C2_Witness ==
    \E A, B \in ToolIds : \E rA, rB \in Results :
        /\ StartedInOrder(A, B)
        /\ rA # rB
        /\ Carries(Cur, A, rA)
        /\ Carries(Cur, B, rB)
        /\ ev = Event("tool_result", A, "read_file")

\* C3: a text stream delivered as start, n >= 1 chunks, end while one
\* assistant turn stays open adds exactly one TextPart to that turn, with
\* the chunk texts concatenated in arrival order.
C3_Coalesce ==
    [][(/\ ev'.name = "stream_end"
        /\ currentTurn # NullTurn /\ isInAssistantTurn
        /\ wire.inTurn
        /\ wire.chunks >= 1
        /\ wire.text # <<>>)
       => currentTurn'.parts = Append(currentTurn.parts, TextPart(wire.text))]_vars

\* C4: turn_end with an assistant turn open appends the turn iff it has a
\* part or preview text, and leaves no turn open.
C4_TurnEnd ==
    [][(ev'.name = "turn_end" /\ currentTurn # NullTurn /\ isInAssistantTurn)
       => /\ turns' = IF Len(currentTurn.parts) > 0 \/ currentTurn.text # <<>>
                      THEN Append(turns, currentTurn) ELSE turns
          /\ currentTurn' = NullTurn
          /\ ~isInAssistantTurn']_vars
\* reached: a turn_end has finalized a turn with parts
C4_Witness ==
    /\ ev.name = "turn_end"
    /\ turns # <<>>
    /\ Last(turns).role = "assistant"
    /\ Len(Last(turns).parts) > 0
    /\ currentTurn = NullTurn

\* C5: a stay_silent tool_start with an assistant turn open discards the
\* turn (no turn open, not generating, turn list unchanged), and the
\* tool_result and turn_end that follow append nothing.
Idle(s) == s.currentTurn = NullTurn /\ ~s.isInAssistantTurn /\ ~s.isGenerating
C5_SilentDiscard ==
    [][/\ (/\ ev'.name = "tool_start" /\ ev'.tool = "stay_silent"
           /\ currentTurn # NullTurn /\ isInAssistantTurn)
          => (Idle(Cur)' /\ turns' = turns)
       /\ (silent.phase = "open" /\ ev'.name \in {"tool_result", "turn_end"})
          => (Idle(Cur)' /\ turns' = turns)]_vars
\* reached: a turn with parts was discarded, and its result and turn_end handled
C5_Witness ==
    /\ silent.phase = "done"
    /\ silent.parts > 0
    /\ ev.name = "turn_end"
    /\ started["t1"] = "stay_silent" \/ started["t2"] = "stay_silent"

\* C6: when the user has sent /stop and turn_end arrives while a text
\* stream is running, the finalized turn holds every part recorded so far
\* and the text the stream's chunks have delivered.
C6_StopKeepsPartial ==
    [][(/\ ev'.name = "turn_end"
        /\ wsOut = Stop
        /\ currentTurn # NullTurn /\ isInAssistantTurn
        /\ wire.sid # 0 /\ wire.inTurn /\ wire.text # <<>>)
       => /\ Len(turns') = Len(turns) + 1
          /\ Last(turns').role = "assistant"
          /\ IsPrefix(currentTurn.parts, Last(turns').parts)
          /\ \E k \in 1..Len(Last(turns').parts) :
                 Last(turns').parts[k] = TextPart(wire.text)]_vars

C8_OpensTurn ==
    [][(/\ currentTurn = NullTurn /\ ~isInAssistantTurn
        /\ \/ ev'.name = "stream_start"
           \/ (ev'.name = "tool_start" /\ ev'.tool # "stay_silent"))
       => /\ currentTurn' # NullTurn
          /\ isInAssistantTurn'
          /\ (ev'.name = "tool_start"
              => currentTurn'.parts = <<ToolPart(ev'.id, ev'.tool)>>)]_vars

\* C9: no turn, open or finalized, holds two ToolParts with the same id.
DistinctToolIds(parts) ==
    \A i, j \in 1..Len(parts) :
        (i # j /\ parts[i].type = "tool" /\ parts[j].type = "tool")
        => parts[i].id # parts[j].id
C9_UniqueToolIds ==
    /\ DistinctToolIds(currentTurn.parts)
    /\ \A k \in 1..Len(turns) : DistinctToolIds(turns[k].parts)

\* C10: every event other than a clear or reload leaves the turn list a
\* prefix of the new one, so finalized turns keep their place, role,
\* preview text and parts.
C10_AppendOnly ==
    [][ev'.name \notin {"new_chat", "session_load"} => IsPrefix(turns, turns')]_vars
\* reached: an assistant turn with parts was finalized and later events
\* (a submit, then tool or text events) were handled
C10_Witness ==
    /\ Len(turns) >= 3
    /\ turns[2].role = "assistant"
    /\ Len(turns[2].parts) > 0
    /\ ev.name \in {"tool_start", "stream_end", "tool_result", "turn_end"}

\* C11: every assistant turn of the turn list comes right after a user turn,
\* in states reached by live events and in states reached by a reload.
UserPrecedes(ts) ==
    \A k \in 1..Len(ts) :
        ts[k].role = "assistant" => (k > 1 /\ ts[k - 1].role = "user")
C11_UserPrecedes == UserPrecedes(turns)

\* C12: after a session_load the turn list is the one the log gives on a
\* freshly constructed page, whatever was there before; no turn is open; and
\* loading the same log again leaves the turn list structurally the same.
C12_ReloadReplaces ==
    [][ev'.name = "session_load"
       => /\ Shape(turns') = Shape(loadSessionChunks(Fresh, log').turns)
          /\ currentTurn' = NullTurn
          /\ ~isInAssistantTurn'
          /\ (ev.name = "session_load" => Shape(turns') = Shape(turns))]_vars
\* reached: a log with turns was loaded over a page that had handled a
\* submit, and was then loaded again
C12_Witness ==
    /\ ev = Event("session_load", "again", "")
    /\ isGenerating
    /\ Len(turns) >= 2
    /\ \E k \in 1..Len(turns) : turns[k].role = "assistant"

\* C13: a reload gives one user turn per user record and one assistant turn
\* per run of assistant / tool_result records (between user records or the
\* ends of the log) that has a non-empty content or a tool call; the turn's
\* parts are, record by record, the record's non-empty content as one
\* TextPart and then one ToolPart per tool call.
RECURSIVE CallParts(_)
CallParts(tcs) ==
    IF tcs = <<>> THEN <<>>
    ELSE <<ToolPart(Head(tcs).id, Head(tcs).name)>> \o CallParts(Tail(tcs))
RecordParts(c) ==
    (IF c.content # <<>> THEN <<TextPart(c.content)>> ELSE <<>>) \o CallParts(c.tool_calls)
RunTurn(parts) ==
    IF parts = <<>> THEN <<>> ELSE <<[role |-> "assistant", parts |-> parts]>>
RECURSIVE ExpectedShape(_, _)
ExpectedShape(l, parts) ==
    IF l = <<>> THEN RunTurn(parts)
    ELSE IF Head(l).type = "user"
         THEN RunTurn(parts) \o <<[role |-> "user", parts |-> <<>>]>>
              \o ExpectedShape(Tail(l), <<>>)
    ELSE IF Head(l).type = "assistant"
         THEN ExpectedShape(Tail(l), parts \o RecordParts(Head(l)))
    ELSE ExpectedShape(Tail(l), parts)
C13_RunsBecomeTurns ==
    [][ev'.name = "session_load" => Shape(turns') = ExpectedShape(log', <<>>)]_vars
\* reached: a run of two assistant records with content around a tool_result
\* record, the second with a tool call, was loaded as one turn of three parts
C13_Witness ==
    /\ ev.name = "session_load"
    /\ Len(log) = 3
    /\ log[1].type = "assistant" /\ log[1].content # <<>>
    /\ log[2].type = "tool_result"
    /\ log[3].type = "assistant" /\ log[3].content # <<>> /\ log[3].tool_calls # <<>>
    /\ Len(turns) = 1
    /\ Len(turns[1].parts) = 3

\* C14: on reload a tool_result record adds nothing to the turns wherever it
\* stands in the log, and each result is applied, after the walk, to the tool
\* call with its tool_call_id, with the display computed from that call's
\* arguments.
Move(l, k, j) ==
    LET rest == SubSeq(l, 1, k - 1) \o SubSeq(l, k + 1, Len(l))
    IN SubSeq(rest, 1, j - 1) \o <<l[k]>> \o SubSeq(rest, j, Len(rest))
CallsOf(l, id) ==
    {p \in UNION {{<<k, c>> : c \in 1..Len(l[k].tool_calls)} : k \in 1..Len(l)} :
        l[p[1]].tool_calls[p[2]].id = id}
ResultsOf(l, id) ==
    {k \in 1..Len(l) : l[k].type = "tool_result" /\ l[k].tool_call_id = id}
AppliedWithOwnArgs(s, l, id) ==
    \A p \in CallsOf(l, id) : \A k \in ResultsOf(l, id) :
        LET el == ToolElAt(s.dom, ToolById(s.dom, id)) IN
        /\ ToolById(s.dom, id)[1] # 0
        /\ el.status = "success"
        /\ el.display = ReloadDisplay(l[k].name, l[k].content,
                                      ParsedArgs(l[p[1]].tool_calls[p[2]].arguments))
C14_ResultsById ==
    [][ev'.name = "session_load"
       => /\ \A k \in 1..Len(log') : \A j \in 1..Len(log') :
                 log'[k].type = "tool_result"
                 => Shape(loadSessionChunks(Fresh, Move(log', k, j)).turns) = Shape(turns')
          /\ \A id \in ToolIds :
                 (Cardinality(CallsOf(log', id)) = 1 /\ Cardinality(ResultsOf(log', id)) = 1)
                 => AppliedWithOwnArgs(Cur', log', id)]_vars
\* the same for logs whose results all get a display
C14_ResultsByIdNoRaise ==
    [][(ev'.name = "session_load" /\ ~LoadRaises(log'))
       => /\ \A k \in 1..Len(log') : \A j \in 1..Len(log') :
                 log'[k].type = "tool_result"
                 => Shape(loadSessionChunks(Fresh, Move(log', k, j)).turns) = Shape(turns')
          /\ \A id \in ToolIds :
                 (Cardinality(CallsOf(log', id)) = 1 /\ Cardinality(ResultsOf(log', id)) = 1)
                 => AppliedWithOwnArgs(Cur', log', id)]_vars

\* C15: a tool_result whose id matches no tool element is not dropped: the
\* turns and the open turn stay as they are and a tool update is emitted, so
\* the page shows something for the result.
C15_UnmatchedResult ==
    [][(ev'.name = "tool_result" /\ ToolById(dom, ev'.id)[1] = 0)
       => /\ turns' = turns
          /\ currentTurn' = currentTurn
          /\ dom' # dom]_vars

\* C16: a tool_result for an id whose tool element the previous tool_result
\* of the same id has resolved changes nothing: the element keeps the status
\* and the display the first result gave it.
C16_ResolveOnce ==
    [][(/\ ev.name = "tool_result" /\ ev'.name = "tool_result" /\ ev'.id = ev.id
        /\ ToolById(dom, ev.id)[1] # 0
        /\ ToolElAt(dom, ToolById(dom, ev.id)).status # "pending")
       => dom' = dom]_vars

\* C17: after clear() (the new_chat handler) messages and turns are empty and
\* no turn is open, and every sequence of events handled afterwards leaves the
\* turn list and the open turn a freshly constructed page would have after
\* the same events; text buffered from a stream that was running at the
\* clear() does not reach a later turn.
LaterEvents ==
    {Event("submit", "", ""), Event("stream_chunk", "s1", ""),
     Event("stream_end", "s1", ""), Event("turn_end", "", "")}
Handle(s, e) ==
    IF e.name = "submit" THEN handleSubmit(s, <<"h">>)
    ELSE IF e.name = "stream_chunk" THEN appendStream(s, e.id, <<"a">>)
    ELSE IF e.name = "stream_end" THEN endStream(s, e.id)
    ELSE turnEnd(s)
RECURSIVE HandleAll(_, _)
HandleAll(s, es) == IF es = <<>> THEN s ELSE HandleAll(Handle(s, Head(es)), Tail(es))
MaxLater == 3
Futures == UNION {[1..n -> LaterEvents] : n \in 1..MaxLater}
SameTurns(s1, s2) ==
    /\ Shape(s1.turns) = Shape(s2.turns)
    /\ (s1.currentTurn = NullTurn) = (s2.currentTurn = NullTurn)
    /\ s1.currentTurn # NullTurn => s1.currentTurn.parts = s2.currentTurn.parts
C17_ClearIsFresh ==
    [][ev'.name = "new_chat"
       => /\ messages' = <<>> /\ turns' = <<>>
          /\ currentTurn' = NullTurn /\ ~isInAssistantTurn'
          /\ \A es \in Futures : SameTurns(HandleAll(Cur', es), HandleAll(Fresh, es))]_vars
\* the same for a clear() handled while nothing is being generated
C17_ClearIsFreshIdle ==
    [][(ev'.name = "new_chat" /\ ~isGenerating)
       => \A es \in Futures : SameTurns(HandleAll(Cur', es), HandleAll(Fresh, es))]_vars

\* ------------------------------------------- delivered turn_end (SpecLive)
\* The events of Spec, with the server's promise that a turn_end is delivered
\* after every submitted message: while a turn is open or the page is
\* generating, a turn_end can arrive even when no other event is left, and
\* it does arrive.
MaxLiveEvents == 4
InitLive ==
    /\ Init!1 /\ Init!2 /\ Init!3 /\ Init!4 /\ Init!5 /\ Init!6 /\ Init!7
    /\ Init!8 /\ Init!9 /\ Init!10 /\ Init!11 /\ Init!12 /\ Init!13
    /\ count = [total |-> 0, stream |-> 0, other |-> 0, limit |-> MaxLiveEvents]
    /\ Init!15 /\ Init!16 /\ Init!17 /\ Init!18
Pending == currentTurn # NullTurn \/ isGenerating
Settled    == currentTurn = NullTurn /\ ~isGenerating
LiveTurnEnd ==
    /\ More \/ Pending
    /\ Install(turnEnd(Cur))
    /\ wire' = NoWire
    /\ silent' = IF silent.phase = "open" THEN [silent EXCEPT !.phase = "done"]
                 ELSE NotSilent
    /\ ev' = Event("turn_end", "", "")
    /\ count' = IF More THEN [count EXCEPT !.total = @ + 1] ELSE count
    /\ UNCHANGED <<started, log, beTurn>>
NextLive ==
    \/ \E input \in UserInputs : Submit(input)
    \/ StreamStart
    \/ \E text \in ChunkTexts : StreamChunk(text)
    \/ StreamEnd
    \/ \E id \in ToolIds, name \in ToolNames : ToolStart(id, name)
    \/ \E id \in ToolIds, r \in Results : ToolResult(id, r)
    \/ LiveTurnEnd
    \/ SystemMessage
    \/ NewChat
    \/ \E chunks \in StoredSessions : SessionLoad(chunks)
    \/ \E event \in OtherEvents : UnknownEvent(event)
SpecLive == InitLive /\ [][NextLive]_vars /\ WF_vars(LiveTurnEnd)

\* C18: with turn_end delivered, every state in which a turn is open or the
\* page is generating is followed by a state with no open turn and
\* isGenerating false, whatever tool results are missing, duplicated or
\* unmatched and whatever other events come in between.
C18_NoStall == Pending ~> Settled
\* a turn_end has closed everything while a started tool has no result
C18_Witness ==
    /\ ev.name = "turn_end" /\ Settled
    /\ \E id \in ToolIds :
           /\ ToolById(dom, id)[1] # 0
           /\ ToolElAt(dom, ToolById(dom, id)).status = "pending"

\* C19: a session_load completes whatever the shape of the records -
\* arguments that are not JSON, tool calls without a function, results with
\* an unknown id - and the turn list holds a ToolPart for every tool call of
\* the log.
RECURSIVE CountCalls(_)
CountCalls(l) == IF l = <<>> THEN 0 ELSE Len(Head(l).tool_calls) + CountCalls(Tail(l))
RECURSIVE CountToolParts(_)
CountToolParts(ts) ==
    IF ts = <<>> THEN 0
    ELSE Cardinality({j \in 1..Len(Head(ts).parts) : Head(ts).parts[j].type = "tool"})
         + CountToolParts(Tail(ts))
C19_ReloadCompletes ==
    [][ev'.name = "session_load"
       => /\ ~LoadRaises(log')
          /\ ~handleSessionLoadRaises(log')
          /\ CountToolParts(turns') = CountCalls(log')]_vars
\* the same for loadSessionChunks of chat.ts alone
C19_ChatReloadCompletes ==
    [][ev'.name = "session_load"
       => /\ ~LoadRaises(log')
          /\ CountToolParts(turns') = CountCalls(log')]_vars

\* ------------------------------------ display fallback (SpecDisplay)
MaxRange == 2
\* updateTool with the frontend display fallback: the tool_result event
\* brings no display, and the display is computed from the result text and
\* from the arguments of the request stored on the tool element.
\* args after the try block: {} unless rawArgs is a string that parses (to
\* an object or to null) or typeof rawArgs is 'object' (an object or null)
FallbackArgs(raw) == IF raw.kind \in {"json", "object"} THEN raw.value ELSE EmptyArgs
FrontendDisplay(d) ==
    [src |-> "getToolDisplay", v |-> "", name |-> "", content |-> <<>>,
     line1 |-> d.line1, line2 |-> d.line2, has_line2 |-> d.has_line2]
updateToolFrontend(s, id, name, resultText, raw) ==
    LET p == ToolById(s.dom, id)
        d == getToolDisplay(name, resultText, FallbackArgs(raw))
    IN IF p[1] = 0 THEN [raised |-> FALSE, st |-> s]
       ELSE IF d.raised THEN [raised |-> TRUE, st |-> s]
       ELSE [raised |-> FALSE,
             st |-> [s EXCEPT !.dom = updateToolElement(@, p, name, FrontendDisplay(d), TRUE)]]

DisplayNames ==
    {"read_file", "write_to_file", "list_dir", "find_by_name", "grep_search",
     "search_web", "load_url_content", "read_page", "other_tool"}
\* offset and limit of a read_file request: absent, 0, 1, 2, ...
RangeValues == {JUndef} \cup {JNum(n) : n \in 0..MaxRange}
RangeFields(o, l) == [file_path |-> JStr(<<"d", "/", "f">>), offset |-> o, limit |-> l]
DisplayRaws ==
    {RawAbsent, RawInvalid, RawJson(EmptyArgs), RawJson(NullArgs), RawObject(NullArgs),
     RawJson(GoodArgs), RawJson(BadArgs),
     RawJson(ArgsObject([offset |-> JNum(2), limit |-> JNum(3), query |-> JStr(<<"q">>),
                         pattern |-> JStr(<<"p">>), page_id |-> JStr(<<"g">>),
                         url |-> JStr(<<"u">>)])),
     RawObject(ArgsObject([url |-> JNum(5)]))}
    \cup {RawJson(ArgsObject(RangeFields(o, l))) : o \in RangeValues, l \in RangeValues}
DisplayTexts ==
    {<<>>, <<"r">>, <<"x", "\n", "y">>, <<"[", "f", "]", " ", "a">>,
     <<"N", "o", " ", "m", "a", "t", "c", "h", "e", "s">>,
     <<"{", "r", "t", "u", "}">>, <<"{", "x", "}">>, <<"{", "?", "}">>, <<"{">>,
     <<"{", "r", "}", " ", "}">>,
     <<"a", ":", "n", "o", " ", "m", "a", "t", "c", "h", "e", "s", "\n", "b">>,
     <<"[", "d", "]">>,
     <<"[", "d", "]", " ", "a", "\n", "[", "f", "]", " ", "b", " ", "(", "1", ")", "\n",
       "[", "f", "]", "\n", "[", "f", "]", " ", "c", "\n", "x">>}

\* the page after tool_start {id: 't1', name, raw_request} on a new page
InitDisplay ==
    /\ Init!1 /\ Init!2 /\ Init!3 /\ Init!4 /\ Init!5 /\ Init!6 /\ Init!7
    /\ Init!9 /\ Init!10 /\ Init!12 /\ Init!14 /\ Init!15 /\ Init!16
    /\ Init!17 /\ Init!18
    /\ \E n \in DisplayNames, raw \in DisplayRaws :
           /\ dom = createTool(Fresh, "t1", n).dom
           /\ started = [i \in ToolIds |-> IF i = "t1" THEN n ELSE ""]
           /\ ev = [name |-> "tool_start", id |-> "t1", tool |-> n, raw |-> raw]

\* 'tool_result' {id, name, raw_response: {result: text}} without display
DisplayResult(text) ==
    /\ ev.name = "tool_start"
    /\ LET r == updateToolFrontend(Cur, ev.id, ev.tool, text, ev.raw) IN
       /\ Install(r.st)
       /\ ev' = [name |-> "tool_result", id |-> ev.id, tool |-> ev.tool, raw |-> ev.raw,
                 text |-> text, raised |-> r.raised]
    /\ UNCHANGED <<wire, started, silent, count, log, beTurn>>

NextDisplay == \E text \in DisplayTexts : DisplayResult(text)
SpecDisplay == InitDisplay /\ [][NextDisplay]_vars

\* C20: getToolDisplay returns a display without raising for every tool
\* name, every result text and every args value updateTool passes to it,
\* among them missing and wrong-typed fields and the null that the stored
\* request's arguments can parse to.
C20_Total == ev.name = "tool_result" => ~ev.raised
\* the same with the args an object, all fields absent or of the declared type
C20_TotalWellTyped ==
    (ev.name = "tool_result"
     /\ ev.raw \notin {RawJson(NullArgs), RawObject(NullArgs), RawJson(BadArgs),
                       RawObject(ArgsObject([url |-> JNum(5)]))})
    => ~ev.raised

\* the display the tool element of the result shows
Shown == ToolElAt(dom, ToolById(dom, ev.id)).display
JsonTools == {"search_web", "load_url_content", "read_page"}
\* the result text holds no embedded JSON, or JSON.parse rejects it
NoJson(text) == JsonMatch(text) = <<>> \/ ~JsonParse(JsonMatch(text)).valid

\* C21: for search_web, load_url_content and read_page a result text without
\* embedded JSON, or with JSON that does not parse, gets the display of the
\* default rule for that text.
C21_FallbackIsDefault ==
    (/\ ev.name = "tool_result" /\ ~ev.raised
     /\ ev.tool \in JsonTools /\ NoJson(ev.text))
    => Shown = FrontendDisplay(DefaultDisplay(100, ev.text))

\* C22: for read_file, line1 is the basename of file_path followed by
\* '(all N hang)' exactly when neither offset nor limit is given, by
\* '(offset-end/N hang)' when only offset is given and by
\* '(offset-(offset+limit-1)/N hang)' when both are given, N being the number
\* of lines of the result text and 0 counting as a given value.
Given(v) == v.t # "undefined"
RangeAll(n) == <<"(", "a", "l", "l", " ">> \o Digits(n) \o <<"hang", ")">>
RangeFrom(o, n) ==
    <<"(">> \o Digits(o) \o <<"-", "e", "n", "d", "/">> \o Digits(n) \o <<"hang", ")">>
RangeBoth(o, l, n) ==
    <<"(">> \o Digits(o) \o <<"-">> \o Digits(o + l - 1) \o <<"/">> \o Digits(n)
    \o <<"hang", ")">>
C22_ReadFileRange ==
    LET args == FallbackArgs(ev.raw)
        o    == args.f.offset
        l    == args.f.limit
        n    == Len(Split(ev.text, "\n"))
        base == Basename(args.f.file_path.s) \o <<" ">>
    IN (/\ ev.name = "tool_result" /\ ~ev.raised /\ ev.tool = "read_file"
        /\ args.t = "object" /\ args.f.file_path.t = "string")
       => /\ (~Given(o) /\ ~Given(l)) <=> Shown.line1 = base \o RangeAll(n)
          /\ (Given(o) /\ ~Given(l)) => Shown.line1 = base \o RangeFrom(o.n, n)
          /\ (Given(o) /\ Given(l)) => Shown.line1 = base \o RangeBoth(o.n, l.n, n)
\* the same with 0 and a limit without offset counting as not given
C22_ReadFileRangeTruthy ==
    LET args == FallbackArgs(ev.raw)
        o    == args.f.offset
        l    == args.f.limit
        n    == Len(Split(ev.text, "\n"))
        base == Basename(args.f.file_path.s) \o <<" ">>
    IN (/\ ev.name = "tool_result" /\ ~ev.raised /\ ev.tool = "read_file"
        /\ args.t = "object" /\ args.f.file_path.t = "string")
       => /\ ~Truthy(o) => Shown.line1 = base \o RangeAll(n)
          /\ (Truthy(o) /\ ~Truthy(l)) => Shown.line1 = base \o RangeFrom(o.n, n)
          /\ (Truthy(o) /\ Truthy(l)) => Shown.line1 = base \o RangeBoth(o.n, l.n, n)

\* the first balanced top-level {...} region of a text (the JSON objects of
\* the model hold no nested braces): from the first '{' to the next '}'
FirstRegion(text) ==
    LET os == {j \in 1..Len(text) : text[j] = "{"} IN
    IF os = {} THEN <<>>
    ELSE LET o  == CHOOSE j \in os : \A k \in os : j <= k
             cs == {j \in (o + 1)..Len(text) : text[j] = "}"}
         IN IF cs = {} THEN <<>>
            ELSE SubSeq(text, o, CHOOSE j \in cs : \A k \in cs : j <= k)

\* C23: for search_web, load_url_content and read_page the JSON that is
\* parsed is the first balanced {...} region of the result text: text after
\* a valid object, a further '}' included, does not change the display.
C23_FirstRegion ==
    (/\ ev.name = "tool_result" /\ ~ev.raised /\ ev.tool \in JsonTools
     /\ FirstRegion(ev.text) # <<>> /\ JsonParse(FirstRegion(ev.text)).valid)
    => Shown = FrontendDisplay(getToolDisplay(ev.tool, FirstRegion(ev.text),
                                              FallbackArgs(ev.raw)))

\* list_dir results as the claim reads them: the entry lines are the lines
\* that start with '[', and an entry '[tag] name' or '[tag] name (size)'
\* has the name between '] ' and ' (' (or the end of the line)
EntryCount(text) ==
    Cardinality({j \in 1..Len(text) : text[j] = "[" /\ (j = 1 \/ text[j - 1] = "\n")})
RECURSIVE UpToParen(_)
UpToParen(s) ==
    IF Len(s) <= 1 THEN s
    ELSE IF Len(s) >= 3 /\ s[2] = " " /\ s[3] = "(" THEN <<s[1]>>
    ELSE <<s[1]>> \o UpToParen(Tail(s))
RECURSIVE NameOf(_)
NameOf(l) ==
    IF Len(l) < 3 THEN <<>>
    ELSE IF l[1] = "]" /\ l[2] = " " THEN UpToParen(SubSeq(l, 3, Len(l)))
    ELSE NameOf(Tail(l))
RECURSIVE EntryLines(_)
EntryLines(text) ==
    IF text = <<>> THEN <<>>
    ELSE LET js   == {j \in 1..Len(text) : text[j] = "\n"}
             e    == IF js = {} THEN Len(text) + 1 ELSE CHOOSE j \in js : \A k \in js : j <= k
             line == SubSeq(text, 1, e - 1)
             rest == EntryLines(SubSeq(text, e + 1, Len(text)))
         IN IF line # <<>> /\ line[1] = "[" THEN <<line>> \o rest ELSE rest
RECURSIVE CommaJoin(_)
CommaJoin(ns) ==
    IF ns = <<>> THEN <<>>
    ELSE IF Len(ns) = 1 THEN ns[1]
    ELSE ns[1] \o <<",", " ">> \o CommaJoin(Tail(ns))
MoreSuffix(k) == <<".", ".", ".", " ", "(", "+">> \o Digits(k) \o <<")">>
IsListDirResult ==
    /\ ev.name = "tool_result" /\ ~ev.raised /\ ev.tool = "list_dir"

\* C24 as stated: has_line2 iff count > 0; line2 is the names of the first
\* min(3, count) entries joined by ', ', followed by '... (+K)', K = count - 3,
\* iff count > 3; and line2 is non-empty whenever has_line2 is true.
C24_ListDirAsStated ==
    LET cnt == EntryCount(ev.text)
        es    == EntryLines(ev.text)
        first == SubSeq(es, 1, IF cnt < 3 THEN cnt ELSE 3)
        names == [i \in 1..Len(first) |-> NameOf(first[i])]
    IN IsListDirResult
       => /\ Shown.has_line2 <=> cnt > 0
          /\ Shown.line2 = CommaJoin(names)
                           \o (IF cnt > 3 THEN MoreSuffix(cnt - 3) ELSE <<>>)
          /\ Shown.has_line2 => Shown.line2 # <<>>

\* C24 (amended): has_line2 iff count > 0; line2 is the names of those of
\* the first min(3, count) entries that have a name, joined by ', ',
\* followed by '... (+K)', K = count - 3, iff count > 3; line2 is non-empty
\* whenever one of these entries has a name or count > 3.
C24_ListDir ==
    LET cnt == EntryCount(ev.text)
        es    == EntryLines(ev.text)
        first == SubSeq(es, 1, IF cnt < 3 THEN cnt ELSE 3)
        Named(n) == n # <<>>
        names == SelectSeq([i \in 1..Len(first) |-> NameOf(first[i])], Named)
    IN IsListDirResult
       => /\ Shown.has_line2 <=> cnt > 0
          /\ Shown.line2 = CommaJoin(names)
                           \o (IF cnt > 3 THEN MoreSuffix(cnt - 3) ELSE <<>>)
          /\ (names # <<>> \/ cnt > 3) => Shown.line2 # <<>>
\* five lines, four of them entries, the third without a name
C24_Witness ==
    /\ IsListDirResult
    /\ EntryCount(ev.text) = 4
    /\ Shown.has_line2
    /\ Shown.line2 = <<"a", ",", " ", "b", ".", ".", ".", " ", "(", "+", "1", ")">>

\* a grep_search result that is a 'no matches' message: the trimmed text
\* begins with these words, in any case
IsNoMatchMessage(text) ==
    LET s == Lower(TrimWs(text))
    IN Len(s) >= Len(NoMatches) /\ SubSeq(s, 1, Len(NoMatches)) = NoMatches

\* C25: for grep_search the display reports zero matches, with has_line2
\* false, exactly when the result is empty or a 'no matches' message; any
\* other result, also one whose matched lines hold the words 'no matches',
\* has has_line2 true and line2 = the first line cut to 100 characters, then
\* '...' iff it was longer, then ' (+K)' iff K > 0 further lines follow.
C25_Grep ==
    LET s     == TrimWs(ev.text)
        zero  == s = <<>> \/ IsNoMatchMessage(ev.text)
        lines == Split(s, "\n")
        k     == Len(lines) - 1
    IN (ev.name = "tool_result" /\ ~ev.raised /\ ev.tool = "grep_search")
       => /\ Shown.has_line2 <=> ~zero
          /\ zero => Shown.line1 = Quoted(OrText(FallbackArgs(ev.raw).f.query, <<>>)) \o NoMatch
          /\ ~zero => Shown.line2 =
                 SubSeq(lines[1], 1, IF Len(lines[1]) < 100 THEN Len(lines[1]) ELSE 100)
                 \o (IF Len(lines[1]) > 100 THEN <<".", ".", ".">> ELSE <<>>)
                 \o (IF k > 0 THEN <<" ", "(", "+">> \o Digits(k) \o <<")">> ELSE <<>>)
\* the same with every result that holds the words taken for a message
C25_GrepIncludes ==
    LET s     == TrimWs(ev.text)
        zero  == s = <<>> \/ Includes(Lower(s), NoMatches)
        lines == Split(s, "\n")
        k     == Len(lines) - 1
    IN (ev.name = "tool_result" /\ ~ev.raised /\ ev.tool = "grep_search")
       => /\ Shown.has_line2 <=> ~zero
          /\ ~zero => Shown.line2 =
                 SubSeq(lines[1], 1, IF Len(lines[1]) < 100 THEN Len(lines[1]) ELSE 100)
                 \o (IF Len(lines[1]) > 100 THEN <<".", ".", ".">> ELSE <<>>)
                 \o (IF k > 0 THEN <<" ", "(", "+">> \o Digits(k) \o <<")">> ELSE <<>>)

\* C26: the message list holds exactly one Message for each turn with
\* non-empty text, in turn order, and no other Message.
C26_MessagePerTextTurn ==
    LET HasText(tn) == tn.text # <<>>
        tw == SelectSeq(turns, HasText)
    IN [i \in 1..Len(messages) |-> [role |-> messages[i].role, text |-> messages[i].text]]
       = [i \in 1..Len(tw) |-> [role |-> tw[i].role, text |-> tw[i].text]]

\* C27: an event whose name is not in the handler table is ignored:
\* handleEvent raises nothing and the turn list, the message list, the open
\* turn, the in-turn flag, the generating flag and the stream buffer stay as
\* they are.
C27_UnknownIgnored ==
    [][ev'.name = "unknown"
       => /\ ev'.tool # "TypeError"
          /\ UNCHANGED <<turns, messages, currentTurn, isInAssistantTurn,
                         isGenerating, streamBuf>>]_vars
\* the frame alone
C27_UnknownFrame ==
    [][ev'.name = "unknown"
       => UNCHANGED <<turns, messages, currentTurn, isInAssistantTurn,
                      isGenerating, streamBuf>>]_vars

\* C28: a turn_end only closes the turn it belongs to. When stay_silent has
\* re-enabled Send and a new message was accepted before the silent turn's
\* turn_end arrived, that turn_end leaves the new message's turn open and
\* the interface generating, so that what follows is recorded in it.
C28_LateTurnEnd ==
    [][(silent.phase = "late" /\ ev'.name = "turn_end" /\ currentTurn # NullTurn)
          => /\ currentTurn' = currentTurn
             /\ isInAssistantTurn'
             /\ isGenerating']_vars
\* what the code does with it: the new message's empty turn is discarded
\* and the interface returns to idle
C28_LateTurnEndCloses ==
    [][(silent.phase = "late" /\ ev'.name = "turn_end" /\ currentTurn # NullTurn)
          => Idle(Cur)']_vars

\* C29: after any sequence of handlers (submit, stream, tool_start with
\* stay_silent included, tool_result, turn_end, new_chat, session_load)
\* isInAssistantTurn is true exactly when currentTurn is not null.
C29_TurnFlag == isInAssistantTurn <=> (currentTurn # NullTurn)
\* reached: stay_silent has discarded an open turn that held parts
C29_Witness ==
    /\ ev.name = "tool_start" /\ ev.tool = "stay_silent"
    /\ silent.phase = "open" /\ silent.parts > 0
    /\ ~isInAssistantTurn
    /\ currentTurn = NullTurn

\* C30: between handlers, whenever isGenerating is false no assistant turn
\* is open (currentTurn is null and isInAssistantTurn is false); so a
\* message accepted by handleSubmit never replaces an open turn that has
\* accumulated parts.
C30_IdleHasNoTurn ==
    /\ [](~isGenerating => (currentTurn = NullTurn /\ ~isInAssistantTurn))
    /\ [][(ev'.name = "submit" /\ ev'.id = "message")
            => ~(currentTurn # NullTurn /\ Len(currentTurn.parts) > 0)]_vars
\* reached: a message is accepted after an assistant turn with parts was
\* finalized
C30_Witness ==
    /\ ev.name = "submit" /\ ev.id = "message"
    /\ Len(turns) > 2
    /\ turns[Len(turns) - 1].role = "assistant"
    /\ Len(turns[Len(turns) - 1].parts) > 0
    /\ isGenerating

\* C31: in every reachable state, live or after a reload, every assistant
\* turn of the turn list has at least one part (no empty assistant turn is
\* ever finalized) and every user turn has none.
C31_PartsByRole ==
    \A i \in 1..Len(turns) :
        /\ turns[i].role = "assistant" => Len(turns[i].parts) > 0
        /\ turns[i].role = "user" => turns[i].parts = <<>>
\* reached: a turn_end has dropped an empty open turn while the list
\* already held a finalized assistant turn
C31_Witness ==
    /\ ev.name = "turn_end"
    /\ Len(turns) > 2
    /\ Last(turns).role = "user"
    /\ \E i \in 1..Len(turns) : turns[i].role = "assistant"

\* C32: the status of a resolved tool call survives a reload: a tool call
\* whose live tool_result had success = false is in error status after the
\* session is reconstructed from its log, and one with success = true is
\* in success status.
ReloadedDom == loadSessionChunks(Cur, log).dom
LiveStatus(id) == ToolElAt(dom, ToolById(dom, id)).status
ReloadedStatus(id) == ToolElAt(ReloadedDom, ToolById(ReloadedDom, id)).status
ResolvedBoth(id) ==
    /\ Resolved(log, id)
    /\ ToolById(dom, id)[1] # 0
    /\ ToolById(ReloadedDom, id)[1] # 0
    /\ LiveStatus(id) \in {"success", "error"}
C32_StatusSurvives ==
    (~beTurn /\ wire.sid = 0)
        => \A id \in ToolIds : ResolvedBoth(id) => ReloadedStatus(id) = LiveStatus(id)
\* what the code does: every reloaded result is shown as a success
C32_ReloadIsSuccess ==
    (~beTurn /\ wire.sid = 0)
        => \A id \in ToolIds : ResolvedBoth(id) => ReloadedStatus(id) = "success"

\* C33: a silently suppressed turn stays suppressed after a reload: for a
\* log whose assistant record carries a stay_silent tool call, the
\* reconstruction has no ToolPart named stay_silent and no assistant turn
\* for that record, as the live path leaves no assistant turn after a
\* stay_silent tool_start.
AssistantTurns(ts) == Cardinality({i \in 1..Len(ts) : ts[i].role = "assistant"})
HasSilentCall(l) ==
    \E k \in 1..Len(l) : \E c \in 1..Len(l[k].tool_calls) :
        l[k].tool_calls[c].name = "stay_silent"
HasSilentPart(ts) ==
    \E i \in 1..Len(ts) : \E j \in 1..Len(ts[i].parts) :
        ts[i].parts[j].type = "tool" /\ ts[i].parts[j].name = "stay_silent"
C33_SilentSurvivesReload ==
    (~beTurn /\ wire.sid = 0 /\ HasSilentCall(log))
        => /\ ~HasSilentPart(Reconstructed)
           /\ AssistantTurns(Reconstructed) = AssistantTurns(turns)
\* the live half: the live turn list never holds a stay_silent part
C33_LiveSuppressed == ~HasSilentPart(turns)
\* the reload half as the code has it: every stay_silent call of the log
\* is a ToolPart of the reconstruction
C33_ReloadKeepsCall ==
    (~beTurn /\ wire.sid = 0 /\ HasSilentCall(log)) => HasSilentPart(Reconstructed)
\* plain turns: live and reconstruction agree on the number of assistant turns
C33_PlainTurnCount ==
    (~beTurn /\ wire.sid = 0 /\ ~HasSilentCall(log))
        => AssistantTurns(Reconstructed) = AssistantTurns(turns)

ChatFields == <<messages, turns, currentTurn, isInAssistantTurn, isGenerating, dom>>
SessionClick == ev'.name = "click" /\ ev'.id \in {"delete", "item", "new"}
C36_NoSessionCommand ==
    [][(isGenerating /\ SessionClick)
          => /\ wsOut' = wsOut
             /\ UNCHANGED <<messages, turns, currentTurn, isInAssistantTurn, isGenerating,
                            streamId, streamBuf, dom, activeItem, currentSessionId>>]_vars
\* reached: the new-chat button was clicked while the open turn held a part
\* and the current session was an empty one
C36_Witness ==
    /\ ev.name = "click" /\ ev.id = "new"
    /\ isGenerating
    /\ currentTurn # NullTurn /\ Len(currentTurn.parts) > 0
    /\ CurrentIsEmpty

\* C39: the left and right sidebars are mutually exclusive: after
\* initSidebarState, under any sequence of toolbar clicks and Ctrl+B /
\* Ctrl+E, sidebarVisible and rightSidebarVisible are never both true.
C39_SidebarsExclusive == ~(sidebarVisible /\ rightSidebarVisible)
\* with the toolbar buttons alone the two are never both open
C39_ButtonsExclusive ==
    [][(~(sidebarVisible /\ rightSidebarVisible) /\ ev'.name # "keydown")
          => ~(sidebarVisible' /\ rightSidebarVisible')]_vars

\* C37: the SIGKILL fallback that stopPythonBackend schedules only ever
\* targets the process that was being stopped: when restart-backend has
\* spawned a new backend before the timer fires, the timer does not kill
\* the new process.
C37_TimerTargetsStopped ==
    [][ev'.name = "timer"
          => \A q \in 1..Len(children) : q # ev'.target => children'[q] = children[q]]_vars
\* what the timer does: it signals the process pythonProcess names when it
\* fires, and no other
C37_TimerKillsCurrent ==
    [][ev'.name = "timer"
          => \A q \in 1..Len(children) : q # pythonProcess => children'[q] = children[q]]_vars

\* C38: after restart-backend has spawned a new backend, pythonProcess
\* refers to it and isServerReady reflects it until that process itself
\* exits: the exit of the previously stopped process neither clears the
\* handle nor resets readiness, so a later before-quit still terminates
\* the running backend.
C38_HandleSurvivesOldExit ==
    [][/\ (ev'.name = "exit" /\ pythonProcess # NoProcess /\ ev'.target # pythonProcess)
          => (pythonProcess' = pythonProcess /\ isServerReady' = isServerReady)
       /\ ev'.name = "before-quit"
          => \A q \in 1..Len(children) : children'[q].alive => children'[q].killed]_vars
\* a process that exits while it is the one pythonProcess names does
\* clear the handle and readiness
C38_OwnExitClears ==
    [][(ev'.name = "exit" /\ ev'.target = pythonProcess)
          => (pythonProcess' = NoProcess /\ ~isServerReady')]_vars

====
